---- MODULE Spec2Model ----
(***************************************************************************)
(* broadcast-event-system: the in-process event bus (EventService) and the *)
(* cross-context broadcast bus (BroadcastService).                         *)
(*                                                                         *)
(* EventService.listeners is a Map<string, Set<listener>>.  A JavaScript   *)
(* Map has a key or has it not, and a Set iterates in insertion order, so  *)
(* the registry is a function whose DOMAIN is the set of keys present and  *)
(* whose values are duplicate-free sequences (insertion order).            *)
(***************************************************************************)
EXTENDS Naturals, Sequences, FiniteSets, TLC

\* ------------------------------------------------------------- bounds
\* EventService: listeners 1..NumListeners, payloads 1..NumPayloads.
NumListeners == 3
NumPayloads == 2
\* BroadcastService: at most MaxIds subscribe calls and at most MaxTimers message
\* deliveries pending.
MaxIds == 2
MaxTimers == 1
\* EventService: the invocations of one emit call that the history keeps once a
\* listener removes and registers itself again.
MaxCalls == 3
\* useEventOn: at most MaxEffects runs of the component's effect.
MaxEffects == 3
\* BroadcastService with messages sent in a row: at most MaxPending deliveries
\* pending, at most MaxMessages messages on their way to one handler.
MaxPending == 4
MaxMessages == 3

EventTypes == {"a", "b"}
Listeners == 1 .. NumListeners
Payloads == 1 .. NumPayloads

ChannelNames == {"c", "d"}
Callbacks == {"cb1", "cb2"}
Data == {"m1", "m2"}

VARIABLES
    listeners,    \* EventService.listeners: event type -> its Set, in insertion order
    pc,           \* "idle", or "dispatch" while emit's forEach is running
    cur,          \* the envelope of the emit call in progress
    idx,          \* number of Set entries forEach has passed
    call,         \* the most recent call made on the EventService
    calls,        \* the listener invocations that call has made, in order
    errors,       \* what that call has written to console.error
    result,       \* "none" while the call runs, then "returned" or "threw"
    thrown,       \* history: the listeners whose invocation raised during that call
    subscribed,   \* history: per event type, listeners on()ed and not removed since
    lastOff,      \* history: <<type, listener>> of the latest off() that removed a
                  \* listener, while only emit calls have followed it; else <<>>
    loose,        \* the Set forEach is iterating, once clear() has taken it out of the
                  \* registry during the dispatch
    atBegin,      \* history: the listeners registered for the type when the emit call
                  \* in progress (or just returned) began to iterate
    selfOff,      \* history: the listener that last removed itself while it was
                  \* invoked, its type, and whether that emit is still the latest one
    inflight,     \* history: which of on, off, clear the listeners of the emit call
                  \* in progress (or just returned) have called
    other,        \* the listeners field of a second EventService (new EventService())
    hook,         \* a component that calls useEventOn: whether it is mounted, the
                  \* arguments of its last render, the listener its effect made, and
                  \* how many listeners its effects have made; with useEventState,
                  \* the state useState holds and the value the last render returned
    late,         \* history: the listener last registered right after an emit call
                  \* of its event type had returned, and the envelope of that call
    twin          \* a second component that calls useEventOn with the arguments of
                  \* the first

\* The EventService the calls are made on.
evSelf == <<listeners, pc, cur, idx, call, calls, errors, result, thrown, subscribed,
           lastOff, loose, atBegin, selfOff, inflight>>

evVars == <<evSelf, other, hook, late, twin>>

VARIABLES
    channels,           \* BroadcastService.channels: channel name -> its BroadcastChannel
    bcListeners,        \* BroadcastService.listeners: channel name -> (listener id -> handler)
    listenerIdCounter,  \* BroadcastService.listenerIdCounter
    timers,             \* the transport's pending deliveries (setTimeout queue), in order
    bcCall,             \* the most recent call on the BroadcastService, or delivery
    bcResult,           \* how it ended: "returned" or "threw"
    ret,                \* the listener id it returned ("" when none)
    bcErrors,           \* what it has written to console.error
    delivered,          \* the callback invocations it has made
    issued,             \* history: the ids subscribe has returned
    sent,               \* history: the deliveries the latest broadcast call scheduled,
                        \* while only deliveries have followed it; else <<>>
    received,           \* history: the deliveries made since that broadcast call, in
                        \* order, each with whether the callback raised
    otherBc,            \* the fields of a second BroadcastService (new BroadcastService())
    handles,            \* the transport: per channel name, the number of BroadcastChannel
                        \* objects the service has constructed and not closed
    order               \* history, per handler (by its seq): the data of the broadcast
                        \* calls made on its channel while its id was registered, when
                        \* calls are made with deliveries pending, and the data
                        \* delivered to it of those

\* The BroadcastService the calls are made on, and the timers of the program.
bcSelf == <<channels, bcListeners, listenerIdCounter, timers, bcCall, bcResult, ret,
           bcErrors, delivered, issued, sent, received, order, handles>>

bcVars == <<bcSelf, otherBc>>

vars == <<evVars, bcVars>>

\* ------------------------------------------------------------- helpers
Range(s) == {s[i] : i \in 1 .. Len(s)}

\* Set.prototype.has on a Set kept as a sequence.
SetHas(s, x) == x \in Range(s)

\* Set.prototype.add: appends unless present.
SetAdd(s, x) == IF SetHas(s, x) THEN s ELSE Append(s, x)

\* Set.prototype.delete: removes the entry, the others keep their order.
SetDelete(s, x) == SelectSeq(s, LAMBDA y : y # x)

\* Map.prototype.has / set / delete on a Map kept as a function.
MapHas(m, k) == k \in DOMAIN m
MapSet(m, k, v) == [j \in (DOMAIN m) \cup {k} |-> IF j = k THEN v ELSE m[j]]
MapDelete(m, k) == [j \in (DOMAIN m) \ {k} |-> m[j]]
EmptyMap == [j \in {} |-> <<>>]

\* ------------------------------------------------------------- EventService
\* The envelope emit hands to every listener.
EventPayload(eventType, data) == [type |-> eventType, data |-> data]

\* No emit is in progress.
NoPayload == EventPayload("", 0)

\* forEach iterates the Set the registry holds.
NoLoose == [on |-> FALSE, set |-> <<>>]

\* No listener has removed itself.
NoSelfOff == [type |-> "", listener |-> 0, during |-> FALSE]

\* No listener has been registered right after an emit call.
NoLate == [type |-> "", listener |-> 0, missed |-> NoPayload]

\* The initialState a component gives useEventState; no emit carries it.
InitialState == 0

\* The component is not mounted and no effect of it has run.
NoHook == [mounted |-> FALSE, type |-> "", cb |-> "", service |-> "", listener |-> 0,
           made |-> 0, state |-> InitialState, shown |-> InitialState]

\* on with the has-check lost: the Set is created anew on every call.
onFresh(reg, eventType, listener) ==
    MapSet(reg, eventType, <<listener>>)

\* on over an array instead of a Set: the listener is appended even when present.
onPush(reg, eventType, listener) ==
    LET reg1 == IF ~MapHas(reg, eventType) THEN MapSet(reg, eventType, <<>>) ELSE reg
    IN  MapSet(reg1, eventType, Append(reg1[eventType], listener))

\* on(eventType, listener), as a function of the registry.
on(reg, eventType, listener) ==
    LET reg1 == IF ~MapHas(reg, eventType) THEN MapSet(reg, eventType, <<>>) ELSE reg
    IN  MapSet(reg1, eventType, SetAdd(reg1[eventType], listener))

\* off that drops the event type when the listener is not in its Set.
offDropsType(reg, eventType, listener) ==
    IF MapHas(reg, eventType)
    THEN IF SetHas(reg[eventType], listener)
         THEN LET s == SetDelete(reg[eventType], listener)
              IN  IF Len(s) = 0 THEN MapDelete(reg, eventType)
                  ELSE MapSet(reg, eventType, s)
         ELSE MapDelete(reg, eventType)
    ELSE reg

\* off that leaves the last listener of a type where it is.
offOthers(reg, eventType, listener) ==
    IF MapHas(reg, eventType)
    THEN LET s == SetDelete(reg[eventType], listener)
         IN  IF Len(s) = 0 THEN reg ELSE MapSet(reg, eventType, s)
    ELSE reg

\* off without the removal of an emptied entry.
offNoCleanup(reg, eventType, listener) ==
    IF MapHas(reg, eventType)
    THEN MapSet(reg, eventType, SetDelete(reg[eventType], listener))
    ELSE reg

\* off(eventType, listener), as a function of the registry.
off(reg, eventType, listener) ==
    IF MapHas(reg, eventType)
    THEN LET s == SetDelete(reg[eventType], listener)
         IN  IF Len(s) = 0 THEN MapDelete(reg, eventType) ELSE MapSet(reg, eventType, s)
    ELSE reg

\* clear that empties the registry, as clearAll does.
clearEvery(reg, eventType) == EmptyMap

\* clear(eventType) and clearAll(), as functions of the registry.
clear(reg, eventType) == MapDelete(reg, eventType)
clearAll(reg) == EmptyMap

\* listenerCount(eventType): this.listeners.get(eventType)?.size || 0.
listenerCountIn(reg, eventType) ==
    IF MapHas(reg, eventType) THEN Len(reg[eventType]) ELSE 0

listenerCount(eventType) == listenerCountIn(listeners, eventType)

\* eventTypes(): the keys of the registry.
eventTypes == DOMAIN listeners

\* A call that invokes no listener: the observation of the call starts empty and
\* the call has returned.
Returned(c) ==
    /\ call' = c
    /\ calls' = <<>>
    /\ errors' = <<>>
    /\ thrown' = <<>>
    /\ result' = "returned"
    /\ atBegin' = {}
    /\ inflight' = {}
    /\ UNCHANGED <<pc, cur, idx, loose, other, hook, late, twin>>
    /\ UNCHANGED bcVars

\* on with the registry a static field: every EventService has the same Map.
OnShared(eventType, listener) ==
    /\ pc = "idle"
    /\ listeners' = on(listeners, eventType, listener)
    /\ other' = on(other, eventType, listener)
    /\ call' = [op |-> "on", type |-> eventType, arg |-> listener,
                had |-> MapHas(listeners, eventType) /\ SetHas(listeners[eventType], listener)]
    /\ calls' = <<>>
    /\ errors' = <<>>
    /\ thrown' = <<>>
    /\ result' = "returned"
    /\ atBegin' = {}
    /\ inflight' = {}
    /\ subscribed' = [subscribed EXCEPT ![eventType] = @ \cup {listener}]
    /\ lastOff' = <<>>
    /\ selfOff' = NoSelfOff
    /\ UNCHANGED <<pc, cur, idx, loose, hook, late, twin>>
    /\ UNCHANGED bcVars

On(eventType, listener) ==
    /\ pc = "idle"
    /\ listeners' = on(listeners, eventType, listener)
    /\ Returned([op |-> "on", type |-> eventType, arg |-> listener,
                 had |-> MapHas(listeners, eventType) /\ SetHas(listeners[eventType], listener)])
    /\ subscribed' = [subscribed EXCEPT ![eventType] = @ \cup {listener}]
    /\ lastOff' = <<>>
    /\ selfOff' = NoSelfOff

\* on that hands the listener the envelope of the emit call before it.
OnLateReplay(eventType, listener) ==
    /\ pc = "idle"
    /\ call.op = "emit"
    /\ call.type = eventType
    /\ ~(MapHas(listeners, eventType) /\ SetHas(listeners[eventType], listener))
    /\ listeners' = on(listeners, eventType, listener)
    /\ call' = [op |-> "on", type |-> eventType, arg |-> listener, had |-> FALSE]
    /\ calls' = <<[listener |-> listener, payload |-> EventPayload(call.type, call.arg)]>>
    /\ errors' = <<>>
    /\ thrown' = <<>>
    /\ result' = "returned"
    /\ atBegin' = {}
    /\ inflight' = {}
    /\ subscribed' = [subscribed EXCEPT ![eventType] = @ \cup {listener}]
    /\ lastOff' = <<>>
    /\ selfOff' = NoSelfOff
    /\ late' = [type |-> eventType, listener |-> listener,
                missed |-> EventPayload(call.type, call.arg)]
    /\ UNCHANGED <<pc, cur, idx, loose, other, hook, twin>>
    /\ UNCHANGED bcVars

\* on(eventType, listener) called when the call before it was an
\* emit(eventType, ...) that has returned, for a listener that is not registered.
OnLate(eventType, listener) ==
    /\ pc = "idle"
    /\ call.op = "emit"
    /\ call.type = eventType
    /\ ~(MapHas(listeners, eventType) /\ SetHas(listeners[eventType], listener))
    /\ listeners' = on(listeners, eventType, listener)
    /\ call' = [op |-> "on", type |-> eventType, arg |-> listener, had |-> FALSE]
    /\ calls' = <<>>
    /\ errors' = <<>>
    /\ thrown' = <<>>
    /\ result' = "returned"
    /\ atBegin' = {}
    /\ inflight' = {}
    /\ subscribed' = [subscribed EXCEPT ![eventType] = @ \cup {listener}]
    /\ lastOff' = <<>>
    /\ selfOff' = NoSelfOff
    /\ late' = [type |-> eventType, listener |-> listener,
                missed |-> EventPayload(call.type, call.arg)]
    /\ UNCHANGED <<pc, cur, idx, loose, other, hook, twin>>
    /\ UNCHANGED bcVars

Off(eventType, listener) ==
    /\ pc = "idle"
    /\ listeners' = off(listeners, eventType, listener)
    /\ Returned([op |-> "off", type |-> eventType, arg |-> listener,
                 had |-> MapHas(listeners, eventType) /\ SetHas(listeners[eventType], listener)])
    /\ subscribed' = [subscribed EXCEPT ![eventType] = @ \ {listener}]
    /\ lastOff' = IF MapHas(listeners, eventType) /\ SetHas(listeners[eventType], listener)
                  THEN <<eventType, listener>>
                  ELSE <<>>
    /\ selfOff' = NoSelfOff

Clear(eventType) ==
    /\ pc = "idle"
    /\ listeners' = clear(listeners, eventType)
    /\ Returned([op |-> "clear", type |-> eventType, arg |-> 0,
                 had |-> MapHas(listeners, eventType)])
    /\ subscribed' = [subscribed EXCEPT ![eventType] = {}]
    /\ lastOff' = <<>>
    /\ selfOff' = NoSelfOff

ClearAll ==
    /\ pc = "idle"
    /\ listeners' = clearAll(listeners)
    /\ Returned([op |-> "clearAll", type |-> "", arg |-> 0,
                 had |-> listeners # EmptyMap])
    /\ subscribed' = [n \in EventTypes |-> {}]
    /\ lastOff' = <<>>
    /\ selfOff' = NoSelfOff

\* emit(eventType, data) when this.listeners.get(eventType) is undefined: nothing
\* is invoked.
EmitNoListeners(eventType, data) ==
    /\ pc = "idle"
    /\ ~MapHas(listeners, eventType)
    /\ Returned([op |-> "emit", type |-> eventType, arg |-> data, had |-> FALSE])
    /\ selfOff' = [selfOff EXCEPT !.during = FALSE]
    /\ UNCHANGED <<listeners, subscribed, lastOff>>

\* emit(eventType, data) up to the call of forEach.
EmitBegin(eventType, data) ==
    /\ pc = "idle"
    /\ MapHas(listeners, eventType)
    /\ pc' = "dispatch"
    /\ cur' = EventPayload(eventType, data)
    /\ idx' = 0
    /\ call' = [op |-> "emit", type |-> eventType, arg |-> data, had |-> TRUE]
    /\ calls' = <<>>
    /\ errors' = <<>>
    /\ thrown' = <<>>
    /\ result' = "none"
    /\ atBegin' = Range(listeners[eventType])
    /\ inflight' = {}
    /\ selfOff' = [selfOff EXCEPT !.during = FALSE]
    /\ UNCHANGED <<listeners, subscribed, lastOff, loose, other, hook, late, twin>>
    /\ UNCHANGED bcVars

\* The Set that forEach is iterating: the one emit got from the registry, which
\* the registry still holds unless clear() has dropped it (a Set that off() has
\* emptied is dropped too, and is empty).
eventListeners ==
    IF loose.on THEN loose.set
    ELSE IF MapHas(listeners, cur.type) THEN listeners[cur.type] ELSE <<>>

\* One iteration of forEach without the try/catch: a listener's failure leaves emit.
InvokeNoCatch(outcome) ==
    /\ pc = "dispatch"
    /\ idx < Len(eventListeners)
    /\ calls' = Append(calls, [listener |-> eventListeners[idx + 1], payload |-> cur])
    /\ thrown' = IF outcome = "throw" THEN Append(thrown, eventListeners[idx + 1]) ELSE thrown
    /\ IF outcome = "throw"
       THEN /\ pc' = "idle"
            /\ cur' = NoPayload
            /\ idx' = 0
            /\ result' = "threw"
       ELSE /\ idx' = idx + 1
            /\ UNCHANGED <<pc, cur, result>>
    /\ UNCHANGED <<listeners, call, errors, subscribed, lastOff, loose, atBegin, selfOff,
                   inflight, other, hook, late, twin>>
    /\ UNCHANGED bcVars

\* One iteration of forEach: the next listener is invoked with the envelope; what
\* it raises is caught and written to console.error, tagged with the event type.
Invoke(outcome) ==
    /\ pc = "dispatch"
    /\ idx < Len(eventListeners)
    /\ calls' = Append(calls, [listener |-> eventListeners[idx + 1], payload |-> cur])
    /\ thrown' = IF outcome = "throw" THEN Append(thrown, eventListeners[idx + 1]) ELSE thrown
    /\ idx' = idx + 1
    /\ errors' = IF outcome = "throw"
                 THEN Append(errors, [type |-> cur.type,
                                      listener |-> eventListeners[idx + 1]])
                 ELSE errors
    /\ UNCHANGED <<listeners, pc, cur, call, result, subscribed, lastOff, loose, atBegin,
                   selfOff, inflight, other, hook, late, twin>>
    /\ UNCHANGED bcVars

\* One iteration of forEach whose listener makes one call on the service before
\* it returns or raises: the call leaves the registry as reg, leaves `passed`
\* entries of the Set under iteration behind the iterator, and that Set in or
\* out of the registry as looseAfter says.
InvokeCalling(outcome, reg, passed, looseAfter) ==
    /\ pc = "dispatch"
    /\ idx < Len(eventListeners)
    /\ calls' = Append(calls, [listener |-> eventListeners[idx + 1], payload |-> cur])
    /\ thrown' = IF outcome = "throw" THEN Append(thrown, eventListeners[idx + 1]) ELSE thrown
    /\ errors' = IF outcome = "throw"
                 THEN Append(errors, [type |-> cur.type,
                                      listener |-> eventListeners[idx + 1]])
                 ELSE errors
    /\ listeners' = reg
    /\ idx' = passed
    /\ loose' = looseAfter
    /\ lastOff' = <<>>
    /\ UNCHANGED <<pc, cur, call, result, atBegin, other, hook, late, twin>>
    /\ UNCHANGED bcVars

\* on() during the dispatch ends the iteration, as an iterator does that does not
\* survive a change of its collection.
InvokeOnAbort(outcome, l) ==
    /\ InvokeCalling(outcome, on(listeners, cur.type, l),
                     Len(on(listeners, cur.type, l)[cur.type]), loose)
    /\ subscribed' = [subscribed EXCEPT ![cur.type] = @ \cup {l}]
    /\ selfOff' = NoSelfOff
    /\ inflight' = inflight \cup {"on"}

\* The listener invoked calls on(type, l) for the type being emitted. A Set in
\* iteration visits an entry added to it; a Set that clear() dropped is not the
\* one on() adds to.
InvokeOn(outcome, l) ==
    /\ InvokeCalling(outcome, on(listeners, cur.type, l), idx + 1, loose)
    /\ subscribed' = [subscribed EXCEPT ![cur.type] = @ \cup {l}]
    /\ selfOff' = NoSelfOff
    /\ inflight' = inflight \cup {"on"}

\* The position of x in the Set s, 0 when it is not there.
IndexOf(s, x) == IF SetHas(s, x) THEN CHOOSE i \in 1 .. Len(s) : s[i] = x ELSE 0

\* off() during the dispatch that leaves an emptied Set in the registry.
InvokeOffKeepsEntry(outcome, l) ==
    /\ InvokeCalling(outcome, offNoCleanup(listeners, cur.type, l),
                     IF ~loose.on /\ IndexOf(eventListeners, l) \in 1 .. idx + 1
                     THEN idx ELSE idx + 1,
                     loose)
    /\ subscribed' = [subscribed EXCEPT ![cur.type] = @ \ {l}]
    /\ selfOff' = NoSelfOff
    /\ inflight' = inflight \cup {"off"}

\* off() during the dispatch that has its effect when the dispatch is over: the
\* Set under iteration keeps the entry.
InvokeOffLate(outcome, l) ==
    /\ InvokeCalling(outcome, listeners, idx + 1, loose)
    /\ subscribed' = [subscribed EXCEPT ![cur.type] = @ \ {l}]
    /\ selfOff' = NoSelfOff
    /\ inflight' = inflight \cup {"off"}

\* The listener invoked calls off(type, l) for the type being emitted, l being
\* itself or another listener. An entry deleted from the Set in iteration is
\* not visited if it was not yet; the entries behind the iterator are one less
\* when the deleted one was among them.
InvokeOff(outcome, l) ==
    /\ InvokeCalling(outcome, off(listeners, cur.type, l),
                     IF ~loose.on /\ IndexOf(eventListeners, l) \in 1 .. idx + 1
                     THEN idx ELSE idx + 1,
                     loose)
    /\ subscribed' = [subscribed EXCEPT ![cur.type] = @ \ {l}]
    /\ selfOff' = IF /\ l = eventListeners[idx + 1]
                     /\ l \in subscribed[cur.type]
                     /\ \A i \in 1 .. Len(calls) : calls[i].listener # l
                  THEN [type |-> cur.type, listener |-> l, during |-> TRUE]
                  ELSE NoSelfOff
    /\ inflight' = inflight \cup {"off"}

\* The listener invoked calls clear(type) for the type being emitted: the
\* registry drops the Set, which keeps its entries, and forEach goes on with it.
InvokeClear(outcome) ==
    /\ InvokeCalling(outcome, clear(listeners, cur.type), idx + 1,
                     IF loose.on THEN loose ELSE [on |-> TRUE, set |-> eventListeners])
    /\ subscribed' = [subscribed EXCEPT ![cur.type] = {}]
    /\ selfOff' = NoSelfOff
    /\ inflight' = inflight \cup {"clear"}

\* The listener invoked calls clearAll(): the registry drops every Set; the one
\* of the type being emitted keeps its entries, and forEach goes on with it.
InvokeClearAll(outcome) ==
    /\ InvokeCalling(outcome, clearAll(listeners), idx + 1,
                     IF loose.on THEN loose ELSE [on |-> TRUE, set |-> eventListeners])
    /\ subscribed' = [n \in EventTypes |-> {}]
    /\ selfOff' = NoSelfOff
    /\ inflight' = inflight \cup {"clearAll"}

\* The listener invoked calls off(type, itself) and then on(type, itself) for the
\* type being emitted, and returns. With other entries in the Set, delete takes
\* the listener out and add appends it at the end, where forEach will come to it
\* again. As the only entry, its removal empties the Set, off drops the Set from
\* the registry and on makes a new one: forEach is left with the empty Set. The
\* history keeps the first MaxCalls invocations of the emit call.
InvokeOffOn ==
    /\ pc = "dispatch"
    /\ idx < Len(eventListeners)
    /\ LET l == eventListeners[idx + 1]
           alone == ~loose.on /\ Len(eventListeners) = 1
       IN  /\ calls' = IF Len(calls) < MaxCalls
                       THEN Append(calls, [listener |-> l, payload |-> cur])
                       ELSE calls
           /\ listeners' = on(off(listeners, cur.type, l), cur.type, l)
           /\ idx' = IF loose.on THEN idx + 1 ELSE IF alone THEN 0 ELSE idx
           /\ loose' = IF alone THEN [on |-> TRUE, set |-> <<>>] ELSE loose
           /\ subscribed' = [subscribed EXCEPT ![cur.type] = @ \cup {l}]
    /\ selfOff' = NoSelfOff
    /\ lastOff' = <<>>
    /\ inflight' = inflight \cup {"off", "on"}
    /\ UNCHANGED <<pc, cur, call, errors, thrown, result, atBegin, other, hook, late, twin>>
    /\ UNCHANGED bcVars

\* emit that returns once forEach has called one listener, the calls of the
\* others left undone.
EmitReturnEarly ==
    /\ pc = "dispatch"
    /\ idx >= 1 \/ Len(eventListeners) = 0
    /\ pc' = "idle"
    /\ cur' = NoPayload
    /\ idx' = 0
    /\ result' = "returned"
    /\ loose' = NoLoose
    /\ UNCHANGED <<listeners, call, calls, errors, thrown, subscribed, lastOff, atBegin,
                   selfOff, inflight, other, hook, late, twin>>
    /\ UNCHANGED bcVars

\* forEach has passed every entry: emit returns.
EmitReturn ==
    /\ pc = "dispatch"
    /\ idx >= Len(eventListeners)
    /\ pc' = "idle"
    /\ cur' = NoPayload
    /\ idx' = 0
    /\ result' = "returned"
    /\ loose' = NoLoose
    /\ UNCHANGED <<listeners, call, calls, errors, thrown, subscribed, lastOff, atBegin,
                   selfOff, inflight, other, hook, late, twin>>
    /\ UNCHANGED bcVars

EvInit ==
    /\ listeners = EmptyMap
    /\ pc = "idle"
    /\ cur = NoPayload
    /\ idx = 0
    /\ call = [op |-> "new", type |-> "", arg |-> 0, had |-> FALSE]
    /\ calls = <<>>
    /\ errors = <<>>
    /\ thrown = <<>>
    /\ result = "returned"
    /\ subscribed = [n \in EventTypes |-> {}]
    /\ lastOff = <<>>
    /\ loose = NoLoose
    /\ atBegin = {}
    /\ selfOff = NoSelfOff
    /\ inflight = {}
    /\ other = EmptyMap
    /\ hook = NoHook
    /\ late = NoLate
    /\ twin = NoHook

EvNext ==
    \/ \E n \in EventTypes, l \in Listeners : On(n, l)
    \/ \E n \in EventTypes, l \in Listeners : Off(n, l)
    \/ \E n \in EventTypes : Clear(n)
    \/ ClearAll
    \/ \E n \in EventTypes, p \in Payloads : EmitNoListeners(n, p)
    \/ \E n \in EventTypes, p \in Payloads : EmitBegin(n, p)
    \/ \E outcome \in {"return", "throw"} : Invoke(outcome)
    \/ EmitReturn

\* on(eventType, listener) and off(eventType, listener) called on the second
\* EventService.
OtherOn(eventType, listener) ==
    /\ pc = "idle"
    /\ other' = on(other, eventType, listener)
    /\ UNCHANGED <<evSelf, hook, late, twin>>
    /\ UNCHANGED bcVars

OtherOff(eventType, listener) ==
    /\ pc = "idle"
    /\ other' = off(other, eventType, listener)
    /\ UNCHANGED <<evSelf, hook, late, twin>>
    /\ UNCHANGED bcVars

\* The event name both services are used with.
SameType == "a"

\* The event bus under one event name, with listeners registered before the
\* first emit call and listeners registered after emit calls have returned.
ReplayNext ==
    \/ \E l \in Listeners : pc = "idle" /\ call.op # "emit" /\ On(SameType, l)
    \/ \E l \in Listeners : OnLate(SameType, l)
    \/ \E l \in Listeners : Off(SameType, l)
    \/ \E p \in Payloads : EmitNoListeners(SameType, p)
    \/ \E p \in Payloads : EmitBegin(SameType, p)
    \/ \E outcome \in {"return", "throw"} : Invoke(outcome)
    \/ EmitReturn

\* Two EventService objects in one program, used with the same event name and
\* the same listeners.
InstancesNext ==
    \/ \E l \in Listeners : On(SameType, l)
    \/ \E l \in Listeners : Off(SameType, l)
    \/ Clear(SameType)
    \/ ClearAll
    \/ \E p \in Payloads : EmitNoListeners(SameType, p)
    \/ \E p \in Payloads : EmitBegin(SameType, p)
    \/ \E outcome \in {"return", "throw"} : Invoke(outcome)
    \/ EmitReturn
    \/ \E l \in Listeners : OtherOn(SameType, l)
    \/ \E l \in Listeners : OtherOff(SameType, l)

\* The event type the listeners below are registered for.
ReentrantType == "a"

\* The event bus with listeners that call on, off or clear for the type being
\* emitted while they are invoked, and return.
ReentrantNext ==
    \/ \E l \in Listeners : On(ReentrantType, l)
    \/ \E l \in Listeners : Off(ReentrantType, l)
    \/ \E p \in Payloads : EmitNoListeners(ReentrantType, p)
    \/ \E p \in Payloads : EmitBegin(ReentrantType, p)
    \/ \E outcome \in {"return", "throw"} : Invoke(outcome)
    \/ \E l \in Listeners : InvokeOn("return", l)
    \/ \E l \in Listeners : InvokeOff("return", l)
    \/ InvokeClear("return")
    \/ EmitReturn

\* ------------------------------------------------------------- useEventOn
\* The two services a component can be given: the one the calls above are made
\* on, and the second one.
Services == {"self", "other"}

\* const listener = (payload) => { ... }: every run of the effect makes a new
\* function, which is none of the listeners the program registers itself.
HookListener(k) == NumListeners + k
HookListeners == {HookListener(k) : k \in 1 .. MaxEffects}

\* The registries of the two services, by service.
Registries == [self |-> listeners, other |-> other]

\* An effect that registers one listener made once, whichever component runs it.
useEventOnShared(regs, eventType, listener, service) ==
    [regs EXCEPT ![service] = on(@, eventType, HookListener(1))]

\* The effect: service.on(eventType, listener).
useEventOn(regs, eventType, listener, service) ==
    [regs EXCEPT ![service] = on(@, eventType, listener)]

\* A cleanup that makes its listener anew instead of keeping the one registered.
cleanupNewListener(regs, h) ==
    IF h.mounted THEN [regs EXCEPT ![h.service] = off(@, h.type, HookListener(h.made + 1))]
    ELSE regs

\* The cleanup the effect returned: service.off(eventType, listener), with the
\* eventType, listener and service of the run that returned it.
cleanup(regs, h) ==
    IF h.mounted THEN [regs EXCEPT ![h.service] = off(@, h.type, h.listener)]
    ELSE regs

\* What React makes of a render: the cleanup of the effect before (if there is
\* one), then the effect with the arguments of this render (if the component
\* stays), the two without another call in between. It leaves the registries as
\* regs and the component as h.
Commit(op, regs, h) ==
    /\ pc = "idle"
    /\ listeners' = regs.self
    /\ other' = regs.other
    /\ hook' = h
    /\ call' = [op |-> op, type |-> h.type, arg |-> h.listener, had |-> hook.mounted]
    /\ calls' = <<>>
    /\ errors' = <<>>
    /\ thrown' = <<>>
    /\ result' = "returned"
    /\ atBegin' = {}
    /\ inflight' = {}
    /\ subscribed' = [n \in EventTypes |->
                         ((subscribed[n] \ (IF hook.mounted /\ hook.service = "self"
                                               /\ hook.type = n
                                            THEN {hook.listener} ELSE {}))
                          \cup (IF h.mounted /\ h.service = "self" /\ h.type = n
                                THEN {h.listener} ELSE {}))]
    /\ lastOff' = <<>>
    /\ selfOff' = NoSelfOff
    /\ UNCHANGED <<pc, cur, idx, loose, late, twin>>
    /\ UNCHANGED bcVars

\* The component after the effect has run with these arguments.
Mounted(eventType, callback, service) ==
    [mounted |-> TRUE, type |-> eventType, cb |-> callback, service |-> service,
     listener |-> HookListener(hook.made + 1), made |-> hook.made + 1,
     state |-> InitialState, shown |-> InitialState]

\* The component is mounted: the effect runs.
Mount(eventType, callback, service) ==
    /\ ~hook.mounted
    /\ hook.made < MaxEffects
    /\ Commit("mount",
              useEventOn(Registries, eventType, HookListener(hook.made + 1), service),
              Mounted(eventType, callback, service))

\* A render that runs the effect again and not the cleanup of the effect before.
RerenderNoCleanup(eventType, callback, service) ==
    /\ hook.mounted
    /\ hook.made < MaxEffects
    /\ <<eventType, callback, service>> # <<hook.type, hook.cb, hook.service>>
    /\ Commit("rerender",
              useEventOn(Registries, eventType, HookListener(hook.made + 1), service),
              Mounted(eventType, callback, service))

\* The component is rendered again with another eventType, callback or service
\* (the dependencies of the effect): the cleanup runs, then the effect.
Rerender(eventType, callback, service) ==
    /\ hook.mounted
    /\ hook.made < MaxEffects
    /\ <<eventType, callback, service>> # <<hook.type, hook.cb, hook.service>>
    /\ Commit("rerender",
              useEventOn(cleanup(Registries, hook), eventType,
                         HookListener(hook.made + 1), service),
              Mounted(eventType, callback, service))

\* The component is unmounted: the cleanup runs.
Unmount ==
    /\ hook.mounted
    /\ Commit("unmount", cleanup(Registries, hook),
              [hook EXCEPT !.mounted = FALSE, !.listener = 0])

\* ------------------------------------------------------------- two components
\* The listeners the effects of the second component make: new functions, none
\* of those of the first.
TwinListener(k) == NumListeners + MaxEffects + k

\* What React makes of a render of the second component.
CommitTwin(op, regs, h) ==
    /\ pc = "idle"
    /\ listeners' = regs.self
    /\ other' = regs.other
    /\ twin' = h
    /\ call' = [op |-> op, type |-> h.type, arg |-> h.listener, had |-> twin.mounted]
    /\ calls' = <<>>
    /\ errors' = <<>>
    /\ thrown' = <<>>
    /\ result' = "returned"
    /\ atBegin' = {}
    /\ inflight' = {}
    /\ subscribed' = [n \in EventTypes |->
                         ((subscribed[n] \ (IF twin.mounted /\ twin.service = "self"
                                               /\ twin.type = n
                                            THEN {twin.listener} ELSE {}))
                          \cup (IF h.mounted /\ h.service = "self" /\ h.type = n
                                THEN {h.listener} ELSE {}))]
    /\ lastOff' = <<>>
    /\ selfOff' = NoSelfOff
    /\ UNCHANGED <<pc, cur, idx, loose, late, hook>>
    /\ UNCHANGED bcVars

\* The second component is mounted while the first is, with the eventType, the
\* callback (the same function) and the service of the first: its effect runs.
\* The effects of the two components have run less than MaxEffects times.
MountTwin ==
    /\ hook.mounted
    /\ ~twin.mounted
    /\ hook.made + twin.made < MaxEffects
    /\ CommitTwin("mount",
                  useEventOn(Registries, hook.type, TwinListener(twin.made + 1),
                             hook.service),
                  [mounted |-> TRUE, type |-> hook.type, cb |-> hook.cb,
                   service |-> hook.service, listener |-> TwinListener(twin.made + 1),
                   made |-> twin.made + 1, state |-> InitialState,
                   shown |-> InitialState])

\* The second component is unmounted: its cleanup runs.
UnmountTwin ==
    /\ twin.mounted
    /\ CommitTwin("unmount", cleanup(Registries, twin),
                  [twin EXCEPT !.mounted = FALSE, !.listener = 0])

\* The callback both components are given.
SameCallback == "cb1"

\* Two components with useEventOn and the same arguments, mounted and unmounted
\* on one of the two services, in a program that registers listeners of its own
\* under the event name, and emits.
TwinsNext ==
    \/ \E sv \in Services : Mount(SameType, SameCallback, sv)
    \/ Unmount
    \/ MountTwin
    \/ UnmountTwin
    \/ \E l \in Listeners : On(SameType, l)
    \/ \E l \in Listeners : Off(SameType, l)
    \/ \E p \in Payloads : EmitNoListeners(SameType, p)
    \/ \E p \in Payloads : EmitBegin(SameType, p)
    \/ Invoke("return")
    \/ EmitReturn

\* ------------------------------------------------------------- useEventState
\* The callback useEventState hands to useEventOn: (data) => { setState(data) }.
\* It is a new function at every render.
SetState == "setState"

\* A listener that keeps the first data it is handed.
hookListenerFirst(h, payload) ==
    IF payload.type = h.type /\ h.state = InitialState
    THEN [h EXCEPT !.state = payload.data]
    ELSE h

\* The listener of the effect, invoked with payload: if (payload.type ===
\* eventType) callback(payload.data), the callback being setState.
hookListener(h, payload) ==
    IF payload.type = h.type THEN [h EXCEPT !.state = payload.data] ELSE h

\* A component that calls useEventState(eventType, InitialState, service) is
\* mounted: useState holds initialState, the render returns it, the effect runs.
MountState(eventType, service) ==
    /\ ~hook.mounted
    /\ hook.made < MaxEffects
    /\ Commit("mount",
              useEventOn(Registries, eventType, HookListener(hook.made + 1), service),
              Mounted(eventType, SetState, service))

\* The render React makes once setState has been given another value: it returns
\* the state; the callback is a new function, so the cleanup runs, then the
\* effect.
RenderState ==
    /\ hook.mounted
    /\ hook.cb = SetState
    /\ hook.shown # hook.state
    /\ hook.made < MaxEffects
    /\ Commit("rerender",
              useEventOn(cleanup(Registries, hook), hook.type,
                         HookListener(hook.made + 1), hook.service),
              [Mounted(hook.type, SetState, hook.service) EXCEPT
                  !.state = hook.state, !.shown = hook.state])

\* One iteration of forEach in a program with such a component: the listener
\* invoked is the component's, which returns, or one of the program's.
InvokeSetState(outcome) ==
    /\ pc = "dispatch"
    /\ idx < Len(eventListeners)
    /\ outcome = "throw" => eventListeners[idx + 1] \notin HookListeners
    /\ calls' = Append(calls, [listener |-> eventListeners[idx + 1], payload |-> cur])
    /\ thrown' = IF outcome = "throw" THEN Append(thrown, eventListeners[idx + 1]) ELSE thrown
    /\ idx' = idx + 1
    /\ errors' = IF outcome = "throw"
                 THEN Append(errors, [type |-> cur.type,
                                      listener |-> eventListeners[idx + 1]])
                 ELSE errors
    /\ hook' = IF hook.mounted /\ eventListeners[idx + 1] = hook.listener
               THEN hookListener(hook, cur)
               ELSE hook
    /\ UNCHANGED <<listeners, pc, cur, call, result, subscribed, lastOff, loose, atBegin,
                   selfOff, inflight, other, late, twin>>
    /\ UNCHANGED bcVars

\* A component with useEventState in a program that registers listeners of its
\* own under one of the event names, and emits under both.
EventStateNext ==
    \/ \E n \in EventTypes, sv \in Services : MountState(n, sv)
    \/ RenderState
    \/ Unmount
    \/ \E l \in Listeners : On(SameType, l)
    \/ \E l \in Listeners : Off(SameType, l)
    \/ \E n \in EventTypes, p \in Payloads : EmitNoListeners(n, p)
    \/ \E n \in EventTypes, p \in Payloads : EmitBegin(n, p)
    \/ InvokeSetState("return")
    \/ EmitReturn

\* A component with useEventOn that is mounted and unmounted, with the same
\* arguments or others, in a program that registers listeners of its own under
\* one of the event names, and emits.
MountNext ==
    \/ \E n \in EventTypes, cb \in Callbacks, sv \in Services : Mount(n, cb, sv)
    \/ Unmount
    \/ \E l \in Listeners : On(SameType, l)
    \/ \E l \in Listeners : Off(SameType, l)
    \/ \E n \in EventTypes, p \in Payloads : EmitNoListeners(n, p)
    \/ \E n \in EventTypes, p \in Payloads : EmitBegin(n, p)
    \/ Invoke("return")
    \/ EmitReturn

\* A component with useEventOn in a program that registers listeners of its own
\* under one of the event names, and emits.
HooksNext ==
    \/ \E n \in EventTypes, cb \in Callbacks, sv \in Services : Mount(n, cb, sv)
    \/ \E n \in EventTypes, cb \in Callbacks, sv \in Services : Rerender(n, cb, sv)
    \/ Unmount
    \/ \E l \in Listeners : On(SameType, l)
    \/ \E l \in Listeners : Off(SameType, l)
    \/ \E n \in EventTypes, p \in Payloads : EmitNoListeners(n, p)
    \/ \E n \in EventTypes, p \in Payloads : EmitBegin(n, p)
    \/ Invoke("return")
    \/ EmitReturn

\* The event bus with every call there is to change the registry, made by the
\* program or by a listener while it is invoked (no listener calls emit).
ListenerCallsNext ==
    \/ \E l \in Listeners : On(ReentrantType, l)
    \/ \E l \in Listeners : Off(ReentrantType, l)
    \/ Clear(ReentrantType)
    \/ ClearAll
    \/ \E p \in Payloads : EmitNoListeners(ReentrantType, p)
    \/ \E p \in Payloads : EmitBegin(ReentrantType, p)
    \/ Invoke("return")
    \/ \E l \in Listeners : InvokeOn("return", l)
    \/ \E l \in Listeners : InvokeOff("return", l)
    \/ InvokeClear("return")
    \/ InvokeClearAll("return")
    \/ EmitReturn

\* The event bus with listeners that return, some of which remove themselves and
\* register themselves again while they are invoked.
SelfReaddNext ==
    \/ \E l \in Listeners : On(ReentrantType, l)
    \/ \E l \in Listeners : Off(ReentrantType, l)
    \/ \E p \in Payloads : EmitBegin(ReentrantType, p)
    \/ Invoke("return")
    \/ InvokeOffOn
    \/ EmitReturn

\* What forEach does next: it calls the next listener, which returns, or it ends.
Dispatch ==
    \/ Invoke("return")
    \/ InvokeOffOn
    \/ EmitReturn

\* ------------------------------------------------------------- transport
\* The BroadcastChannel the service is run against: an object with a name and the
\* Set of its 'message' listeners; postMessage hands the message to every listener
\* attached at that moment, each through its own setTimeout(..., 0).
NewBroadcastChannel(name) == [name |-> name, message |-> <<>>]
addEventListener(channel, handler) == [channel EXCEPT !.message = SetAdd(@, handler)]
removeEventListener(channel, handler) == [channel EXCEPT !.message = SetDelete(@, handler)]
postMessage(channel, data) ==
    [i \in 1 .. Len(channel.message) |-> [handler |-> channel.message[i], data |-> data]]

\* ------------------------------------------------------------- BroadcastService
\* `listener_${k}`.
ListenerId(k) == "listener_" \o ToString(k)

\* The ids subscribe can have returned within the bound.
ListenerIds == {ListenerId(k) : k \in 1 .. MaxIds}

\* The closure subscribe creates: it holds the callback and the channel name. Two
\* closures are two objects; `seq` (the counter when it was created) tells them
\* apart.
MessageHandler(seq, channelName, callback) ==
    [seq |-> seq, channel |-> channelName, cb |-> callback]

\* The fields of the service, as one value.
Service == [channels |-> channels, listeners |-> bcListeners,
            listenerIdCounter |-> listenerIdCounter]

\* subscribe that knows its callbacks: a callback already subscribed on the
\* channel gets the id it has, and nothing is added.
subscribeDedup(s, channelName, callback) ==
    LET opened == MapHas(s.channels, channelName)
        channels1 == IF opened THEN s.channels
                     ELSE MapSet(s.channels, channelName, NewBroadcastChannel(channelName))
        listeners1 == IF opened THEN s.listeners
                      ELSE MapSet(s.listeners, channelName, EmptyMap)
        known == IF MapHas(listeners1, channelName)
                 THEN {id \in DOMAIN listeners1[channelName] :
                          listeners1[channelName][id].cb = callback}
                 ELSE {}
        counter1 == s.listenerIdCounter + 1
        listenerId == ListenerId(counter1)
        messageHandler == MessageHandler(counter1, channelName, callback)
        channels2 == MapSet(channels1, channelName,
                            addEventListener(channels1[channelName], messageHandler))
    IN  IF known # {}
        THEN [channels |-> channels1, listeners |-> listeners1,
              listenerIdCounter |-> counter1, threw |-> FALSE,
              ret |-> CHOOSE id \in known : TRUE]
        ELSE IF MapHas(listeners1, channelName)
        THEN [channels |-> channels2,
              listeners |-> MapSet(listeners1, channelName,
                                   MapSet(listeners1[channelName], listenerId, messageHandler)),
              listenerIdCounter |-> counter1, threw |-> FALSE, ret |-> listenerId]
        ELSE [channels |-> channels2, listeners |-> listeners1,
              listenerIdCounter |-> counter1, threw |-> TRUE, ret |-> ""]

\* subscribe(channelName, callback): the fields afterwards, whether the call
\* threw, and the id it returned. this.listeners.get(channelName)!.set(...) is a
\* TypeError when the channel has no entry in this.listeners; by then the counter
\* has advanced and the handler is attached to the channel.
subscribe(s, channelName, callback) ==
    LET opened == MapHas(s.channels, channelName)
        channels1 == IF opened THEN s.channels
                     ELSE MapSet(s.channels, channelName, NewBroadcastChannel(channelName))
        listeners1 == IF opened THEN s.listeners
                      ELSE MapSet(s.listeners, channelName, EmptyMap)
        counter1 == s.listenerIdCounter + 1
        listenerId == ListenerId(counter1)
        messageHandler == MessageHandler(counter1, channelName, callback)
        channels2 == MapSet(channels1, channelName,
                            addEventListener(channels1[channelName], messageHandler))
    IN  IF MapHas(listeners1, channelName)
        THEN [channels |-> channels2,
              listeners |-> MapSet(listeners1, channelName,
                                   MapSet(listeners1[channelName], listenerId, messageHandler)),
              listenerIdCounter |-> counter1, threw |-> FALSE, ret |-> listenerId]
        ELSE [channels |-> channels2, listeners |-> listeners1,
              listenerIdCounter |-> counter1, threw |-> TRUE, ret |-> ""]

\* unsubscribe that closes the channel with its last listener.
unsubscribeClosing(s, channelName, listenerId) ==
    IF /\ MapHas(s.channels, channelName)
       /\ MapHas(s.listeners, channelName)
       /\ MapHas(s.listeners[channelName], listenerId)
    THEN IF DOMAIN s.listeners[channelName] = {listenerId}
         THEN [s EXCEPT !.channels = MapDelete(@, channelName),
                        !.listeners = MapDelete(@, channelName)]
         ELSE LET messageHandler == s.listeners[channelName][listenerId]
              IN  [s EXCEPT !.channels = MapSet(@, channelName,
                                removeEventListener(@[channelName], messageHandler)),
                            !.listeners = MapSet(@, channelName,
                                MapDelete(@[channelName], listenerId))]
    ELSE s

\* unsubscribe without removeEventListener: only the id is forgotten.
unsubscribeNoDetach(s, channelName, listenerId) ==
    IF /\ MapHas(s.channels, channelName)
       /\ MapHas(s.listeners, channelName)
       /\ MapHas(s.listeners[channelName], listenerId)
    THEN [s EXCEPT !.listeners = MapSet(@, channelName,
                                        MapDelete(@[channelName], listenerId))]
    ELSE s

\* unsubscribe that looks the id up on every channel, not on channelName only.
unsubscribeAnyChannel(s, channelName, listenerId) ==
    LET holders == {c \in DOMAIN s.channels \cap DOMAIN s.listeners :
                       MapHas(s.listeners[c], listenerId)}
    IN  IF holders # {}
        THEN LET c == CHOOSE c \in holders : TRUE
                 messageHandler == s.listeners[c][listenerId]
             IN  [s EXCEPT !.channels = MapSet(@, c,
                                               removeEventListener(@[c], messageHandler)),
                           !.listeners = MapSet(@, c, MapDelete(@[c], listenerId))]
        ELSE s

\* unsubscribe(channelName, listenerId).
unsubscribe(s, channelName, listenerId) ==
    IF /\ MapHas(s.channels, channelName)
       /\ MapHas(s.listeners, channelName)
       /\ MapHas(s.listeners[channelName], listenerId)
    THEN LET messageHandler == s.listeners[channelName][listenerId]
         IN  [s EXCEPT !.channels = MapSet(@, channelName,
                                           removeEventListener(@[channelName], messageHandler)),
                       !.listeners = MapSet(@, channelName,
                                            MapDelete(@[channelName], listenerId))]
    ELSE s

\* broadcast without the opening of a missing channel: postMessage is called on
\* undefined, which the try/catch turns into a logged error.
broadcastNoOpen(s, channelName, data, sendFails) ==
    [channels |-> s.channels, listeners |-> s.listeners,
     listenerIdCounter |-> s.listenerIdCounter,
     scheduled |-> IF sendFails \/ ~MapHas(s.channels, channelName) THEN <<>>
                   ELSE postMessage(s.channels[channelName], data),
     logged |-> sendFails \/ ~MapHas(s.channels, channelName)]

\* broadcast that posts on a channel that is open, whatever its name.
broadcastAnyOpen(s, channelName, data, sendFails) ==
    LET channels1 == IF MapHas(s.channels, channelName) THEN s.channels
                     ELSE MapSet(s.channels, channelName, NewBroadcastChannel(channelName))
        open == CHOOSE c \in DOMAIN channels1 :
                    \A d \in DOMAIN channels1 :
                        Len(channels1[d].message) <= Len(channels1[c].message)
    IN  [channels |-> channels1, listeners |-> s.listeners,
         listenerIdCounter |-> s.listenerIdCounter,
         scheduled |-> IF sendFails THEN <<>> ELSE postMessage(channels1[open], data),
         logged |-> sendFails]

\* broadcast(channelName, data): the fields afterwards, the deliveries the
\* transport has scheduled, and whether postMessage failed (caught and logged).
broadcast(s, channelName, data, sendFails) ==
    LET channels1 == IF MapHas(s.channels, channelName) THEN s.channels
                     ELSE MapSet(s.channels, channelName, NewBroadcastChannel(channelName))
    IN  [channels |-> channels1, listeners |-> s.listeners,
         listenerIdCounter |-> s.listenerIdCounter,
         scheduled |-> IF sendFails THEN <<>> ELSE postMessage(channels1[channelName], data),
         logged |-> sendFails]

\* close that also starts the ids over.
closeReset(s, channelName) ==
    IF MapHas(s.channels, channelName) /\ MapHas(s.listeners, channelName)
    THEN [s EXCEPT !.channels = MapDelete(@, channelName),
                   !.listeners = MapDelete(@, channelName),
                   !.listenerIdCounter = 0]
    ELSE s

\* close(channelName): only when the channel is in both maps. The handlers are
\* detached and the BroadcastChannel is closed; the service drops the object.
close(s, channelName) ==
    IF MapHas(s.channels, channelName) /\ MapHas(s.listeners, channelName)
    THEN [s EXCEPT !.channels = MapDelete(@, channelName),
                   !.listeners = MapDelete(@, channelName)]
    ELSE s

\* closeAll that also starts the ids over.
closeAllReset(s) ==
    [s EXCEPT !.channels = EmptyMap, !.listeners = EmptyMap, !.listenerIdCounter = 0]

\* closeAll(): every BroadcastChannel is closed, both maps are emptied.
closeAll(s) == [s EXCEPT !.channels = EmptyMap, !.listeners = EmptyMap]

\* getActiveChannels() and isChannelActive(channelName).
getActiveChannels == DOMAIN channels
isChannelActive(channelName) == MapHas(channels, channelName)

\* The channel names for which subscribe(channelName, ...) or
\* broadcast(channelName, ...) constructs a BroadcastChannel: the name given,
\* when this.channels has no entry for it.
Constructed(s, channelName) ==
    IF MapHas(s.channels, channelName) THEN {} ELSE {channelName}

\* close that drops the BroadcastChannel without a call of its close().
ReleasedNone(s, channelName) == {}

\* The channel names on whose BroadcastChannel close(channelName) calls close().
Released(s, channelName) ==
    IF MapHas(s.channels, channelName) /\ MapHas(s.listeners, channelName)
    THEN {channelName}
    ELSE {}

\* closeAll(): close() is called on every BroadcastChannel in this.channels.
ReleasedAll(s) == DOMAIN s.channels

\* The transport after a BroadcastChannel has been constructed for every name
\* in cs, and after close() has been called on the one of every name in cs.
Opened(h, cs) == [c \in DOMAIN h |-> IF c \in cs THEN h[c] + 1 ELSE h[c]]
Closed(h, cs) == [c \in DOMAIN h |-> IF c \in cs /\ h[c] > 0 THEN h[c] - 1 ELSE h[c]]

\* A call that invokes no callback and returns.
BcReturned(c) ==
    /\ bcCall' = c
    /\ bcResult' = "returned"
    /\ ret' = ""
    /\ bcErrors' = <<>>
    /\ delivered' = <<>>
    /\ UNCHANGED otherBc
    /\ UNCHANGED evVars

Subscribe(channelName, callback) ==
    /\ listenerIdCounter < MaxIds
    /\ LET r == subscribe(Service, channelName, callback)
       IN  /\ channels' = r.channels
           /\ bcListeners' = r.listeners
           /\ listenerIdCounter' = r.listenerIdCounter
           /\ bcResult' = IF r.threw THEN "threw" ELSE "returned"
           /\ ret' = r.ret
           /\ issued' = IF r.threw THEN issued ELSE issued \cup {r.ret}
    /\ bcCall' = [op |-> "subscribe", channel |-> channelName,
                  had |-> isChannelActive(channelName)]
    /\ bcErrors' = <<>>
    /\ delivered' = <<>>
    /\ sent' = <<>>
    /\ received' = <<>>
    /\ handles' = Opened(handles, Constructed(Service, channelName))
    /\ UNCHANGED <<timers, otherBc, order>>
    /\ UNCHANGED evVars

Unsubscribe(channelName, listenerId) ==
    /\ LET r == unsubscribe(Service, channelName, listenerId)
       IN  /\ channels' = r.channels
           /\ bcListeners' = r.listeners
           /\ listenerIdCounter' = r.listenerIdCounter
    /\ BcReturned([op |-> "unsubscribe", channel |-> channelName,
                   had |-> /\ MapHas(bcListeners, channelName)
                           /\ MapHas(bcListeners[channelName], listenerId)])
    /\ sent' = <<>>
    /\ received' = <<>>
    /\ UNCHANGED <<timers, issued, order, handles>>

\* broadcast without the try/catch: a failure of postMessage leaves broadcast.
BroadcastNoCatch(channelName, data, sendFails) ==
    LET r == broadcast(Service, channelName, data, sendFails)
    IN  /\ Len(timers) + Len(r.scheduled) <= MaxTimers
        /\ channels' = r.channels
        /\ bcListeners' = r.listeners
        /\ listenerIdCounter' = r.listenerIdCounter
        /\ timers' = timers \o r.scheduled
        /\ bcCall' = [op |-> "broadcast", channel |-> channelName,
                      had |-> isChannelActive(channelName)]
        /\ bcResult' = IF r.logged THEN "threw" ELSE "returned"
        /\ ret' = ""
        /\ bcErrors' = <<>>
        /\ delivered' = <<>>
        /\ sent' = r.scheduled
        /\ received' = <<>>
        /\ handles' = Opened(handles, Constructed(Service, channelName))
        /\ UNCHANGED <<issued, otherBc, order>>
        /\ UNCHANGED evVars

Broadcast(channelName, data, sendFails) ==
    LET r == broadcast(Service, channelName, data, sendFails)
    IN  /\ Len(timers) + Len(r.scheduled) <= MaxTimers
        /\ channels' = r.channels
        /\ bcListeners' = r.listeners
        /\ listenerIdCounter' = r.listenerIdCounter
        /\ timers' = timers \o r.scheduled
        /\ bcCall' = [op |-> "broadcast", channel |-> channelName,
                      had |-> isChannelActive(channelName)]
        /\ bcResult' = "returned"
        /\ ret' = ""
        /\ bcErrors' = IF r.logged THEN <<[channel |-> channelName, in |-> "broadcast"]>>
                       ELSE <<>>
        /\ delivered' = <<>>
        /\ sent' = r.scheduled
        /\ received' = <<>>
        /\ handles' = Opened(handles, Constructed(Service, channelName))
        /\ UNCHANGED <<issued, otherBc, order>>
        /\ UNCHANGED evVars

Close(channelName) ==
    /\ LET r == close(Service, channelName)
       IN  /\ channels' = r.channels
           /\ bcListeners' = r.listeners
           /\ listenerIdCounter' = r.listenerIdCounter
    /\ BcReturned([op |-> "close", channel |-> channelName,
                   had |-> isChannelActive(channelName)])
    /\ sent' = <<>>
    /\ received' = <<>>
    /\ handles' = Closed(handles, Released(Service, channelName))
    /\ UNCHANGED <<timers, issued, order>>

CloseAll ==
    /\ LET r == closeAll(Service)
       IN  /\ channels' = r.channels
           /\ bcListeners' = r.listeners
           /\ listenerIdCounter' = r.listenerIdCounter
    /\ BcReturned([op |-> "closeAll", channel |-> "",
                   had |-> channels # EmptyMap])
    /\ sent' = <<>>
    /\ received' = <<>>
    /\ handles' = Closed(handles, ReleasedAll(Service))
    /\ UNCHANGED <<timers, issued, order>>

\* Nothing is owed to a handler, nothing was delivered.
NoOrder == [owed |-> [k \in 1 .. MaxIds |-> <<>>], got |-> [k \in 1 .. MaxIds |-> <<>>]]

\* The history after the delivery t is made: the data is noted for the handler
\* when something is owed to it.
Got(o, t) ==
    IF o.owed[t.handler.seq] # <<>>
    THEN [o EXCEPT !.got[t.handler.seq] = Append(@, t.data)]
    ELSE o

\* The history after a broadcast call on channelName that the transport accepted:
\* the data is owed to the handler of every id registered on the channel. A
\* handler that has got all that was owed to it starts anew.
Owed(o, lst, channelName, data) ==
    LET seqs == {lst[channelName][id].seq : id \in
                     IF MapHas(lst, channelName) THEN DOMAIN lst[channelName] ELSE {}}
    IN  [owed |-> [k \in 1 .. MaxIds |->
                      IF k \notin seqs THEN o.owed[k]
                      ELSE IF o.owed[k] = o.got[k] THEN <<data>>
                      ELSE Append(o.owed[k], data)],
         got |-> [k \in 1 .. MaxIds |->
                     IF k \in seqs /\ o.owed[k] = o.got[k] THEN <<>> ELSE o.got[k]]]

\* Timers that fire in the reverse of the order they were set in.
DeliverNewest(outcome) ==
    /\ timers # <<>>
    /\ LET t == timers[Len(timers)]
       IN  /\ delivered' = <<[cb |-> t.handler.cb, data |-> t.data]>>
           /\ bcErrors' = IF outcome = "throw"
                          THEN <<[channel |-> t.handler.channel, in |-> "callback"]>>
                          ELSE <<>>
           /\ bcCall' = [op |-> "deliver", channel |-> t.handler.channel,
                         had |-> outcome = "throw"]
           /\ order' = Got(order, t)
    /\ timers' = SubSeq(timers, 1, Len(timers) - 1)
    /\ received' = received
    /\ bcResult' = "returned"
    /\ ret' = ""
    /\ UNCHANGED <<channels, bcListeners, listenerIdCounter, issued, sent, otherBc, handles>>
    /\ UNCHANGED evVars

\* The handler without the try/catch: what the callback raises leaves the handler.
DeliverNoCatch(outcome) ==
    /\ timers # <<>>
    /\ LET t == Head(timers)
       IN  /\ delivered' = <<[cb |-> t.handler.cb, data |-> t.data]>>
           /\ bcCall' = [op |-> "deliver", channel |-> t.handler.channel,
                         had |-> outcome = "throw"]
    /\ bcErrors' = <<>>
    /\ timers' = Tail(timers)
    /\ received' = IF sent = <<>> THEN <<>>
                   ELSE Append(received, [handler |-> Head(timers).handler,
                                          data |-> Head(timers).data,
                                          threw |-> outcome = "throw"])
    /\ bcResult' = IF outcome = "throw" THEN "threw" ELSE "returned"
    /\ ret' = ""
    /\ order' = Got(order, Head(timers))
    /\ UNCHANGED <<channels, bcListeners, listenerIdCounter, issued, sent, otherBc, handles>>
    /\ UNCHANGED evVars

\* The oldest pending timer fires: the handler calls callback(event.data); what
\* the callback raises is caught and written to console.error with the channel
\* name.
Deliver(outcome) ==
    /\ timers # <<>>
    /\ LET t == Head(timers)
       IN  /\ delivered' = <<[cb |-> t.handler.cb, data |-> t.data]>>
           /\ bcErrors' = IF outcome = "throw"
                          THEN <<[channel |-> t.handler.channel, in |-> "callback"]>>
                          ELSE <<>>
           /\ bcCall' = [op |-> "deliver", channel |-> t.handler.channel,
                         had |-> outcome = "throw"]
    /\ timers' = Tail(timers)
    /\ received' = IF sent = <<>> THEN <<>>
                   ELSE Append(received, [handler |-> Head(timers).handler,
                                          data |-> Head(timers).data,
                                          threw |-> outcome = "throw"])
    /\ bcResult' = "returned"
    /\ ret' = ""
    /\ order' = Got(order, Head(timers))
    /\ UNCHANGED <<channels, bcListeners, listenerIdCounter, issued, sent, otherBc, handles>>
    /\ UNCHANGED evVars

BcInit ==
    /\ channels = EmptyMap
    /\ bcListeners = EmptyMap
    /\ listenerIdCounter = 0
    /\ timers = <<>>
    /\ bcCall = [op |-> "new", channel |-> "", had |-> FALSE]
    /\ bcResult = "returned"
    /\ ret = ""
    /\ bcErrors = <<>>
    /\ delivered = <<>>
    /\ issued = {}
    /\ sent = <<>>
    /\ received = <<>>
    /\ otherBc = [channels |-> EmptyMap, listeners |-> EmptyMap, listenerIdCounter |-> 0]
    /\ order = NoOrder
    /\ handles = [c \in ChannelNames |-> 0]

\* Both services as constructed.
Init == EvInit /\ BcInit

BcNext ==
    \/ \E c \in ChannelNames, cb \in Callbacks : Subscribe(c, cb)
    \/ \E c \in ChannelNames, id \in ListenerIds : Unsubscribe(c, id)
    \/ \E c \in ChannelNames, d \in Data, f \in BOOLEAN : Broadcast(c, d, f)
    \/ \E c \in ChannelNames : Close(c)
    \/ CloseAll
    \/ \E outcome \in {"return", "throw"} : Deliver(outcome)

\* The broadcast bus alone, over the transport above.
SpecBroadcast == Init /\ [][BcNext]_vars

\* The event bus alone.
SpecEvent == Init /\ [][EvNext]_vars

\* The event bus alone, with such listeners.
SpecReentrant == Init /\ [][ReentrantNext]_vars

\* The event bus alone, with listeners that change the registry in any way.
SpecListenerCalls == Init /\ [][ListenerCallsNext]_vars

\* emit runs to completion: forEach goes on while it has an entry to visit, and
\* every listener returns.
SpecSelfReadd == Init /\ [][SelfReaddNext]_vars /\ WF_vars(Dispatch)

\* The event buses with a component that is mounted and unmounted.
SpecMount == Init /\ [][MountNext]_vars

\* The event buses with a component that uses useEventOn.
SpecHooks == Init /\ [][HooksNext]_vars

\* The event buses with a component that uses useEventState.
SpecEventState == Init /\ [][EventStateNext]_vars

\* The event bus with listeners that are registered late.
SpecReplay == Init /\ [][ReplayNext]_vars

\* The event buses with two components that use useEventOn.
SpecTwins == Init /\ [][TwinsNext]_vars

\* Two event buses.
SpecInstances == Init /\ [][InstancesNext]_vars

\* broadcast called once the timers of the broadcast before have fired, as a
\* caller does that awaits the delivery (await new Promise(r => setTimeout(r, 10)))
\* before it goes on: every handler attached gets its timer, however many.
BroadcastAfterDelivery(channelName, data, sendFails) ==
    LET r == broadcast(Service, channelName, data, sendFails)
    IN  /\ timers = <<>>
        /\ channels' = r.channels
        /\ bcListeners' = r.listeners
        /\ listenerIdCounter' = r.listenerIdCounter
        /\ timers' = r.scheduled
        /\ bcCall' = [op |-> "broadcast", channel |-> channelName,
                      had |-> isChannelActive(channelName)]
        /\ bcResult' = "returned"
        /\ ret' = ""
        /\ bcErrors' = IF r.logged THEN <<[channel |-> channelName, in |-> "broadcast"]>>
                       ELSE <<>>
        /\ delivered' = <<>>
        /\ sent' = r.scheduled
        /\ received' = <<>>
        /\ handles' = Opened(handles, Constructed(Service, channelName))
        /\ UNCHANGED <<issued, otherBc, order>>
        /\ UNCHANGED evVars

DeliveryNext ==
    \/ \E c \in ChannelNames, cb \in Callbacks : Subscribe(c, cb)
    \/ \E c \in ChannelNames, id \in ListenerIds : Unsubscribe(c, id)
    \/ \E c \in ChannelNames, d \in Data, f \in BOOLEAN : BroadcastAfterDelivery(c, d, f)
    \/ \E c \in ChannelNames : Close(c)
    \/ CloseAll
    \/ \E outcome \in {"return", "throw"} : Deliver(outcome)

\* The broadcast bus used as the tests use it: a message is delivered to all its
\* receivers before the next one is sent.
SpecDelivery == Init /\ [][DeliveryNext]_vars

\* A program that works with one of the two buses: the calls that register and
\* remove, and emit on an event type without listeners. The services are two
\* objects without a field in common, so a call on one is made with the other
\* as constructed.
UsageNext ==
    \/ \E n \in EventTypes, l \in Listeners : bcCall.op = "new" /\ On(n, l)
    \/ \E n \in EventTypes, l \in Listeners : bcCall.op = "new" /\ Off(n, l)
    \/ \E n \in EventTypes : bcCall.op = "new" /\ Clear(n)
    \/ \E n \in EventTypes, p \in Payloads : bcCall.op = "new" /\ EmitNoListeners(n, p)
    \/ \E c \in ChannelNames, cb \in Callbacks : call.op = "new" /\ Subscribe(c, cb)
    \/ \E c \in ChannelNames, id \in ListenerIds : call.op = "new" /\ Unsubscribe(c, id)
    \/ \E c \in ChannelNames : call.op = "new" /\ Close(c)

SpecUsage == Init /\ [][UsageNext]_vars

\* A program that works with one of the two buses under two names: it registers,
\* removes, and emits or broadcasts, each message delivered before the next call.
NamesNext ==
    \/ \E n \in EventTypes, l \in Listeners : bcCall.op = "new" /\ On(n, l)
    \/ \E n \in EventTypes, l \in Listeners : bcCall.op = "new" /\ Off(n, l)
    \/ \E n \in EventTypes, p \in Payloads : bcCall.op = "new" /\ EmitNoListeners(n, p)
    \/ \E n \in EventTypes, p \in Payloads : bcCall.op = "new" /\ EmitBegin(n, p)
    \/ bcCall.op = "new" /\ Invoke("return")
    \/ bcCall.op = "new" /\ EmitReturn
    \/ \E c \in ChannelNames, cb \in Callbacks : call.op = "new" /\ Subscribe(c, cb)
    \/ \E c \in ChannelNames, id \in ListenerIds : call.op = "new" /\ Unsubscribe(c, id)
    \/ \E c \in ChannelNames, d \in Data :
           call.op = "new" /\ BroadcastAfterDelivery(c, d, FALSE)
    \/ call.op = "new" /\ Deliver("return")

SpecNames == Init /\ [][NamesNext]_vars

\* A program that works with one of the two buses and registers and removes:
\* every call that takes a listener, an event name, an id or a channel away,
\* and the calls that register.
TeardownNext ==
    \/ \E n \in EventTypes, l \in Listeners : bcCall.op = "new" /\ On(n, l)
    \/ \E n \in EventTypes, l \in Listeners : bcCall.op = "new" /\ Off(n, l)
    \/ \E n \in EventTypes : bcCall.op = "new" /\ Clear(n)
    \/ bcCall.op = "new" /\ ClearAll
    \/ \E c \in ChannelNames, cb \in Callbacks : call.op = "new" /\ Subscribe(c, cb)
    \/ \E c \in ChannelNames, id \in ListenerIds : call.op = "new" /\ Unsubscribe(c, id)
    \/ \E c \in ChannelNames : call.op = "new" /\ Close(c)
    \/ call.op = "new" /\ CloseAll

SpecTeardown == Init /\ [][TeardownNext]_vars

\* subscribe with the channels a static field: the handler of one
\* BroadcastService is attached to the BroadcastChannel the other holds.
OtherSubscribeShared(channelName, callback) ==
    /\ otherBc.listenerIdCounter < MaxIds
    /\ MapHas(channels, channelName)
    /\ LET r == subscribe(otherBc, channelName, callback)
       IN  /\ otherBc' = [channels |-> r.channels, listeners |-> r.listeners,
                          listenerIdCounter |-> r.listenerIdCounter]
           /\ channels' = MapSet(channels, channelName,
                                 addEventListener(channels[channelName],
                                     MessageHandler(r.listenerIdCounter, channelName,
                                                    callback)))
    /\ UNCHANGED <<bcListeners, listenerIdCounter, timers, bcCall, bcResult, ret,
                   bcErrors, delivered, issued, sent, received, order, handles>>
    /\ UNCHANGED evVars

\* subscribe(channelName, callback) and unsubscribe(channelName, listenerId)
\* called on the second BroadcastService.
OtherSubscribe(channelName, callback) ==
    /\ otherBc.listenerIdCounter < MaxIds
    /\ LET r == subscribe(otherBc, channelName, callback)
       IN  otherBc' = [channels |-> r.channels, listeners |-> r.listeners,
                       listenerIdCounter |-> r.listenerIdCounter]
    /\ UNCHANGED bcSelf
    /\ UNCHANGED evVars

OtherUnsubscribe(channelName, listenerId) ==
    /\ otherBc' = unsubscribe(otherBc, channelName, listenerId)
    /\ UNCHANGED bcSelf
    /\ UNCHANGED evVars

\* The channel name both services are used with.
SameChannel == "c"

\* Two BroadcastService objects in one program, used with the same channel name
\* and the same callbacks.
BcInstancesNext ==
    \/ \E cb \in Callbacks : Subscribe(SameChannel, cb)
    \/ \E id \in ListenerIds : Unsubscribe(SameChannel, id)
    \/ \E d \in Data, f \in BOOLEAN : BroadcastAfterDelivery(SameChannel, d, f)
    \/ Close(SameChannel)
    \/ \E outcome \in {"return", "throw"} : Deliver(outcome)
    \/ \E cb \in Callbacks : OtherSubscribe(SameChannel, cb)
    \/ \E id \in ListenerIds : OtherUnsubscribe(SameChannel, id)

\* Two broadcast buses over the transport above.
SpecBcInstances == Init /\ [][BcInstancesNext]_vars

\* broadcast called while deliveries of broadcast calls before it may be pending,
\* as a caller does that sends several messages in a row: at most MaxPending
\* deliveries are pending, and at most MaxMessages messages are owed to a handler.
BroadcastQueued(channelName, data, sendFails) ==
    LET r == broadcast(Service, channelName, data, sendFails)
    IN  /\ Len(timers) + Len(r.scheduled) <= MaxPending
        /\ \A k \in 1 .. MaxIds :
               order.owed[k] = order.got[k] \/ Len(order.owed[k]) < MaxMessages
        /\ channels' = r.channels
        /\ bcListeners' = r.listeners
        /\ listenerIdCounter' = r.listenerIdCounter
        /\ timers' = timers \o r.scheduled
        /\ bcCall' = [op |-> "broadcast", channel |-> channelName,
                      had |-> isChannelActive(channelName)]
        /\ bcResult' = "returned"
        /\ ret' = ""
        /\ bcErrors' = IF r.logged THEN <<[channel |-> channelName, in |-> "broadcast"]>>
                       ELSE <<>>
        /\ delivered' = <<>>
        /\ sent' = <<>>
        /\ received' = <<>>
        /\ order' = IF r.logged THEN order
                    ELSE Owed(order, bcListeners, channelName, data)
        /\ handles' = Opened(handles, Constructed(Service, channelName))
        /\ UNCHANGED <<issued, otherBc>>
        /\ UNCHANGED evVars

\* Subscribers that stay, and messages sent in a row.
OrderNext ==
    \/ \E cb \in Callbacks : Subscribe(SameChannel, cb)
    \/ \E d \in Data, f \in BOOLEAN : BroadcastQueued(SameChannel, d, f)
    \/ Deliver("return")

SpecOrder == Init /\ [][OrderNext]_vars

\* A timer set by setTimeout(..., 0) fires.
SpecDeliveryFair ==
    SpecDelivery /\ WF_vars(\E outcome \in {"return", "throw"} : Deliver(outcome))

\* ------------------------------------------------------------- claims: EventService
\* How often the most recent call has invoked listener l.
Invocations(l) == Cardinality({i \in 1 .. Len(calls) : calls[i].listener = l})

\* The most recent call is an emit that has returned.
EmitReturned == call.op = "emit" /\ pc = "idle" /\ result = "returned"

\* C1: after on(n, l) for every l of a set L, an emit(n, p) that has returned has
\* invoked every l of L exactly once, each time with the envelope
\* {type: n, data: p}, and listenerCount(n) is the size of L.
C1_FanOut ==
    /\ \A n \in EventTypes : listenerCount(n) = Cardinality(subscribed[n])
    /\ EmitReturned =>
           \A l \in subscribed[call.type] :
               /\ Invocations(l) = 1
               /\ \A i \in 1 .. Len(calls) :
                      calls[i].listener = l =>
                          calls[i].payload = [type |-> call.type, data |-> call.arg]

C1_Witness ==
    /\ EmitReturned
    /\ Cardinality(subscribed[call.type]) >= 2
    /\ Len(calls) = Cardinality(subscribed[call.type])

\* C2: whatever listeners raise during an emit, the emit does not fail: every
\* failure is written to the error sink tagged with the event type, every
\* listener registered for the event type is still invoked, and emit returns.
C2_Isolation ==
    /\ result # "threw"
    /\ Len(errors) = Len(thrown)
    /\ \A i \in 1 .. Len(thrown) :
           errors[i] = [type |-> call.type, listener |-> thrown[i]]
    /\ (call.op = "emit" /\ pc = "idle") =>
           /\ result = "returned"
           /\ \A l \in subscribed[call.type] : Invocations(l) >= 1

\* The first listener invoked raised, and a later one was invoked all the same.
C2_Witness ==
    /\ EmitReturned
    /\ Len(thrown) >= 1
    /\ Len(calls) >= 2
    /\ thrown[1] = calls[1].listener
    /\ calls[2].listener # calls[1].listener

\* C3: an emit(n, p) invokes no listener that off(n, l) removed and on(n, l) has
\* not registered again, and invokes the listeners still registered; and when
\* off has removed the last listener of n, n is not in eventTypes() and
\* listenerCount(n) is 0.
C3_OffStops ==
    /\ call.op = "emit" =>
           \A i \in 1 .. Len(calls) : calls[i].listener \in subscribed[call.type]
    /\ EmitReturned =>
           \A l \in subscribed[call.type] : Invocations(l) >= 1
    /\ (lastOff # <<>> /\ call.op = "emit" /\ call.type = lastOff[1]) =>
           Invocations(lastOff[2]) = 0
    /\ (call.op = "off" /\ subscribed[call.type] = {}) =>
           /\ call.type \notin eventTypes
           /\ listenerCount(call.type) = 0

\* An emit on n has returned after off(n, l) removed l, and has invoked the others.
C3_Witness ==
    /\ EmitReturned
    /\ lastOff # <<>>
    /\ lastOff[1] = call.type
    /\ Len(calls) >= 1

\* No listener is invoked twice by one call.
InvokedAtMostOnce == \A l \in Listeners : Invocations(l) <= 1

\* C4: on(n, l) for an l already registered under n leaves the registry as it
\* was (so listenerCount(n) does not grow), and no emit invokes a listener twice.
C4_OnIdempotent ==
    [][/\ (call'.op = "on" /\ call'.arg \in subscribed[call'.type]) =>
              /\ listeners' = listeners
              /\ listenerCountIn(listeners', call'.type) = listenerCount(call'.type)
       /\ InvokedAtMostOnce']_vars

\* on(n, l) has just been called for a listener that was registered already.
C4_Witness ==
    /\ call.op = "on"
    /\ call.had
    /\ call.arg \in subscribed[call.type]
    /\ listenerCount(call.type) = Cardinality(subscribed[call.type])

\* ------------------------------------------------------------- claims: BroadcastService
\* The 'message' listeners attached to channelName's BroadcastChannel.
AttachedIn(chs, channelName) ==
    IF MapHas(chs, channelName) THEN Range(chs[channelName].message) ELSE {}

\* The listener ids registered in some channel's map.
RegisteredIds ==
    UNION {DOMAIN bcListeners[c] : c \in DOMAIN bcListeners}

\* C5: every subscribe(channelName, cb) returns normally an id under which the
\* channel's map holds one handler, the one made for cb by this call, whatever
\* opened the channel before.
C5_SubscribeSucceeds ==
    [][bcCall'.op = "subscribe" =>
       \A c \in ChannelNames, cb \in Callbacks :
          Subscribe(c, cb) =>
              /\ bcResult' = "returned"
              /\ ret' \in ListenerIds
              /\ MapHas(bcListeners', c)
              /\ MapHas(bcListeners'[c], ret')
              /\ bcListeners'[c][ret'] = MessageHandler(listenerIdCounter', c, cb)
              /\ Cardinality({id \in DOMAIN bcListeners'[c] :
                                 bcListeners'[c][id] = bcListeners'[c][ret']}) = 1]_vars

\* C6: the counter never decreases, every subscribe call advances it, and an id
\* subscribe returns is listener_<counter> and was never returned before.
C6_FreshIds ==
    [][/\ listenerIdCounter' >= listenerIdCounter
       /\ (/\ bcCall'.op = "subscribe"
           /\ \E c \in ChannelNames, cb \in Callbacks : Subscribe(c, cb)) =>
              /\ listenerIdCounter' > listenerIdCounter
              /\ bcResult' = "returned" =>
                     /\ ret' = ListenerId(listenerIdCounter')
                     /\ ret' \notin issued
                     /\ issued' = issued \cup {ret'}]_vars

\* subscribe has returned a second id after the first one was closed away.
C6_Witness ==
    /\ bcCall.op = "subscribe"
    /\ bcResult = "returned"
    /\ Cardinality(issued) >= 2
    /\ ret \in issued
    /\ RegisteredIds = {ret}

\* C7: unsubscribe(c, id) of a registered id detaches that id's handler and
\* forgets that id, and changes nothing else on c or on another channel; and a
\* broadcast on c that the transport accepts schedules one delivery to the
\* handler of every id registered on c and none to the handler of an id that is
\* no longer registered.
C7_UnsubscribeOnlyThat ==
    [][/\ (bcCall'.op = "unsubscribe" /\ bcCall'.had) =>
          LET c == bcCall'.channel
          IN  \A id \in DOMAIN bcListeners[c] :
                  Unsubscribe(c, id) =>
                      /\ bcListeners' = MapSet(bcListeners, c, MapDelete(bcListeners[c], id))
                      /\ DOMAIN channels' = DOMAIN channels
                      /\ \A d \in ChannelNames :
                             AttachedIn(channels', d) =
                                 AttachedIn(channels, d) \
                                     (IF d = c THEN {bcListeners[c][id]} ELSE {})
       /\ (bcCall'.op = "broadcast" /\ bcErrors' = <<>>) =>
          LET c == bcCall'.channel
              new == SubSeq(timers', Len(timers) + 1, Len(timers'))
              ids == IF MapHas(bcListeners, c) THEN DOMAIN bcListeners[c] ELSE {}
          IN  /\ \A i \in 1 .. Len(new) :
                     ListenerId(new[i].handler.seq) \in issued =>
                         ListenerId(new[i].handler.seq) \in ids
              /\ \A id \in ids :
                     Cardinality({i \in 1 .. Len(new) :
                                     new[i].handler = bcListeners[c][id]}) = 1]_vars

\* unsubscribe has removed a registered id from a channel that keeps another.
C7_Witness ==
    /\ bcCall.op = "unsubscribe"
    /\ bcCall.had
    /\ MapHas(bcListeners, bcCall.channel)
    /\ DOMAIN bcListeners[bcCall.channel] # {}
    /\ AttachedIn(channels, bcCall.channel) # {}

\* C8: after close(c) of an active channel c, c is not active; after
\* broadcast(c, ...), c is active.
C8_CloseDeactivates ==
    /\ (bcCall.op = "close" /\ bcCall.had) =>
           /\ ~isChannelActive(bcCall.channel)
           /\ bcCall.channel \notin getActiveChannels
    /\ bcCall.op = "broadcast" => isChannelActive(bcCall.channel)

\* C9: a channel name is a key of this.channels exactly when it is a key of
\* this.listeners.
C9_NoPartialState == DOMAIN channels = DOMAIN bcListeners

\* C10: broadcast(c, p) returns normally and leaves c active, also when c was
\* unopened and never subscribed, and also when the transport's send fails.
C10_BroadcastOpens ==
    bcCall.op = "broadcast" =>
        /\ bcResult = "returned"
        /\ isChannelActive(bcCall.channel)
        /\ bcCall.channel \in getActiveChannels

\* broadcast has opened a channel of a service on which nothing was subscribed.
C10_Witness ==
    /\ bcCall.op = "broadcast"
    /\ ~bcCall.had
    /\ listenerIdCounter = 0
    /\ isChannelActive(bcCall.channel)

\* C11: broadcast(c, p) always returns normally; when the transport's send fails
\* the failure is written to the error sink tagged with c, nothing is scheduled,
\* and the ids registered and the handlers attached on c and on every other
\* channel are as before.
C11_BroadcastNeverRaises ==
    [][bcCall'.op = "broadcast" =>
       /\ bcResult' = "returned"
       /\ \A c \in ChannelNames, d \in Data :
              Broadcast(c, d, TRUE) =>
                  /\ bcErrors' = <<[channel |-> c, in |-> "broadcast"]>>
                  /\ timers' = timers
                  /\ bcListeners' = bcListeners
                  /\ listenerIdCounter' = listenerIdCounter
                  /\ \A e \in ChannelNames :
                         AttachedIn(channels', e) = AttachedIn(channels, e)]_vars

\* A send has failed on a channel that has a subscription.
C11_Witness ==
    /\ bcCall.op = "broadcast"
    /\ bcResult = "returned"
    /\ bcErrors = <<[channel |-> bcCall.channel, in |-> "broadcast"]>>
    /\ MapHas(bcListeners, bcCall.channel)
    /\ DOMAIN bcListeners[bcCall.channel] # {}
    /\ AttachedIn(channels, bcCall.channel) # {}

\* The deliveries made, without their outcomes.
Made(r) == [i \in 1 .. Len(r) |-> [handler |-> r[i].handler, data |-> r[i].data]]

\* C12: a callback that raises while a message is delivered does not fail the
\* delivery (the handler returns to the transport) and is reported with the
\* channel name; every handler the broadcast was scheduled for gets that message
\* once, whatever the handlers before it raised; and an accepted broadcast is
\* scheduled for the handler of every id registered on the channel.
C12_DeliveryIsolation ==
    /\ bcCall.op = "deliver" =>
           /\ bcResult = "returned"
           /\ bcErrors = IF bcCall.had
                         THEN <<[channel |-> bcCall.channel, in |-> "callback"]>>
                         ELSE <<>>
    /\ sent # <<>> =>
           /\ sent = Made(received) \o timers
           /\ \A i, j \in 1 .. Len(sent) :
                  /\ sent[i].data = sent[j].data
                  /\ sent[i].handler.channel = sent[j].handler.channel
                  /\ i # j => sent[i].handler # sent[j].handler
    /\ (bcCall.op = "broadcast" /\ bcErrors = <<>> /\ MapHas(bcListeners, bcCall.channel)) =>
           {sent[i].handler : i \in 1 .. Len(sent)} =
               {bcListeners[bcCall.channel][id] : id \in DOMAIN bcListeners[bcCall.channel]}

\* The first callback a message went to raised, and the second one got the message.
C12_Witness ==
    /\ bcCall.op = "deliver"
    /\ timers = <<>>
    /\ Len(received) = 2
    /\ Made(received) = sent
    /\ received[1].threw
    /\ ~received[2].threw
    /\ received[1].handler.cb # received[2].handler.cb
    /\ received[1].data = received[2].data

\* The ids registered on channelName.
IdsOn(lst, channelName) == IF MapHas(lst, channelName) THEN DOMAIN lst[channelName] ELSE {}

\* C13: a subscribe call that returns adds a new id with a new handler to the
\* channel and keeps every subscription there is, also one of the same
\* callback; a scheduled delivery is eventually made; and once a broadcast on a
\* subscribed channel is delivered, every callback has been invoked with the
\* data once per id it is registered under, so twice when subscribed twice and
\* once again after one of the two ids is unsubscribed.
C13_NotDeduplicated ==
    /\ [][(bcCall'.op = "subscribe" /\ bcResult' = "returned") =>
              LET c == bcCall'.channel
                  old == IdsOn(bcListeners, c)
              IN  /\ ret' \notin old
                  /\ IdsOn(bcListeners', c) = old \cup {ret'}
                  /\ \A id \in old : bcListeners'[c][id] = bcListeners[c][id]
                  /\ bcListeners'[c][ret'] \notin AttachedIn(channels, c)
                  /\ AttachedIn(channels', c) =
                         AttachedIn(channels, c) \cup {bcListeners'[c][ret']}]_vars
    /\ [](sent # <<>> /\ timers = <<>> /\ MapHas(bcListeners, sent[1].handler.channel) =>
              \A cb \in Callbacks :
                  Cardinality({i \in 1 .. Len(received) :
                                  /\ received[i].handler.cb = cb
                                  /\ received[i].data = sent[1].data}) =
                  Cardinality({id \in DOMAIN bcListeners[sent[1].handler.channel] :
                                  bcListeners[sent[1].handler.channel][id].cb = cb}))
    /\ (timers # <<>>) ~> (timers = <<>>)

\* One broadcast has invoked the same callback twice, once per subscription.
C13_Witness ==
    /\ bcCall.op = "deliver"
    /\ timers = <<>>
    /\ Len(sent) = 2
    /\ Len(received) = 2
    /\ received[1].handler.cb = received[2].handler.cb
    /\ received[1].handler # received[2].handler
    /\ received[1].data = received[2].data
    /\ Cardinality(IdsOn(bcListeners, bcCall.channel)) = 2

\* C14: unsubscribe(c, id) opens and closes nothing: the active channels are
\* the same and each keeps its BroadcastChannel, less at most the handler
\* removed, also when id was the last one on c; a subscribe on an active channel
\* attaches its handler to the BroadcastChannel that is there, next to the
\* handlers it has; and a channel leaves the active ones by close or closeAll only.
C14_UnsubscribeKeepsChannel ==
    [][/\ bcCall'.op = "unsubscribe" =>
              /\ DOMAIN channels' = DOMAIN channels
              /\ \A d \in DOMAIN channels :
                     /\ channels'[d].name = channels[d].name
                     /\ d # bcCall'.channel => channels'[d] = channels[d]
                     /\ AttachedIn(channels', d) \subseteq AttachedIn(channels, d)
                     /\ Cardinality(AttachedIn(channels, d) \ AttachedIn(channels', d)) <= 1
              /\ bcCall'.had => MapHas(channels', bcCall'.channel)
       /\ (bcCall'.op = "subscribe" /\ bcCall'.had) =>
              /\ DOMAIN channels' = DOMAIN channels
              /\ AttachedIn(channels, bcCall'.channel) \subseteq
                     AttachedIn(channels', bcCall'.channel)
              /\ SubSeq(channels'[bcCall'.channel].message, 1,
                        Len(channels[bcCall'.channel].message)) =
                     channels[bcCall'.channel].message
       /\ ~(DOMAIN channels \subseteq DOMAIN channels') =>
              bcCall'.op \in {"close", "closeAll"}]_vars

\* unsubscribe has removed the last listener of a channel, which is still active.
C14_Witness ==
    /\ bcCall.op = "unsubscribe"
    /\ bcCall.had
    /\ isChannelActive(bcCall.channel)
    /\ IdsOn(bcListeners, bcCall.channel) = {}
    /\ AttachedIn(channels, bcCall.channel) = {}

\* The state of both buses.
BusState == <<listeners, channels, bcListeners, listenerIdCounter, timers>>

\* C15: off(n, l) with n unknown or l not registered under n, emit(n, p) with no
\* listeners for n, unsubscribe(c, id) with c unknown or id not registered on c,
\* and close(c) with c not open each return normally, invoke and log nothing,
\* and leave the registry, the channels, the id maps, the counter and the
\* pending deliveries as they were.
C15_UsageErrorsNoOps ==
    [][/\ (/\ evVars' # evVars
           /\ call'.op \in {"off", "emit"}
           /\ ~call'.had) =>
              /\ result' = "returned"
              /\ calls' = <<>>
              /\ errors' = <<>>
              /\ BusState' = BusState
       /\ (/\ bcVars' # bcVars
           /\ bcCall'.op \in {"unsubscribe", "close"}
           /\ ~bcCall'.had) =>
              /\ bcResult' = "returned"
              /\ bcErrors' = <<>>
              /\ delivered' = <<>>
              /\ BusState' = BusState]_vars

\* unsubscribe has been called with an id that is not registered on a channel
\* that has a subscription.
C15_Witness ==
    /\ bcCall.op = "unsubscribe"
    /\ ~bcCall.had
    /\ bcResult = "returned"
    /\ IdsOn(bcListeners, bcCall.channel) # {}
    /\ AttachedIn(channels, bcCall.channel) # {}

\* ------------------------------------------------------------- claims: calls made by listeners
\* C21: whatever on, off, emit, clear and clearAll calls have been made, by the
\* program or by listeners during an emit, every event name that is a key of the
\* registry has a non-empty Set: n is in eventTypes() exactly when
\* listenerCount(n) > 0.
C21_NoEmptyEntry ==
    /\ \A n \in DOMAIN listeners : Len(listeners[n]) > 0
    /\ \A n \in EventTypes : (n \in eventTypes) <=> (listenerCount(n) > 0)

\* A listener has removed the last listener of the type during an emit, and the
\* registry has no entry left.
C21_Witness ==
    /\ call.op = "emit"
    /\ "off" \in inflight
    /\ "clear" \notin inflight
    /\ atBegin # {}
    /\ eventTypes = {}
    /\ listenerCount(call.type) = 0

\* The listeners the registry holds for eventType.
RegisteredFor(eventType) ==
    IF MapHas(listeners, eventType) THEN Range(listeners[eventType]) ELSE {}

\* C16: a listener that calls off(n, itself) while an emit(n, p) invokes it (for
\* the first time in that emit) is not registered afterwards, has been invoked
\* once by that emit however the emit goes on, and is invoked by no later
\* emit(n, ...), as long as no on() is called.
C16_SelfOff ==
    selfOff # NoSelfOff =>
        /\ selfOff.listener \notin RegisteredFor(selfOff.type)
        /\ call.op = "emit"
        /\ call.type = selfOff.type =>
               Invocations(selfOff.listener) = IF selfOff.during THEN 1 ELSE 0

\* A later emit has invoked the other listeners after one removed itself.
C16_Witness ==
    /\ selfOff # NoSelfOff
    /\ ~selfOff.during
    /\ EmitReturned
    /\ call.type = selfOff.type
    /\ Len(calls) >= 1

\* C17: an emit(n, p) that has returned has invoked every listener that was
\* registered for n when it began to iterate exactly once, whatever calls the
\* listeners invoked have made.
C17_Snapshot ==
    EmitReturned => \A l \in atBegin : Invocations(l) = 1

\* C18: the registry holds what on() and off() have left registered, also when
\* they are called by a listener; an emit(n, p) whose listeners have called
\* nothing but on(n, ...) returns, has invoked every listener registered when it
\* began once and none twice, and leaves them and the listeners added
\* registered, so that a later emit begins with them all.
C18_OnDuringEmit ==
    /\ \A n \in EventTypes : RegisteredFor(n) = subscribed[n]
    /\ (call.op = "emit" /\ inflight \subseteq {"on"}) =>
           /\ result # "threw"
           /\ InvokedAtMostOnce
           /\ atBegin \subseteq RegisteredFor(call.type)
           /\ \A i \in 1 .. Len(calls) : calls[i].listener \in RegisteredFor(call.type)
           /\ EmitReturned =>
                  \A l \in RegisteredFor(call.type) : Invocations(l) = 1

\* An emit has returned in which a listener registered one that was not.
C18_Witness ==
    /\ EmitReturned
    /\ inflight = {"on"}
    /\ atBegin # RegisteredFor(call.type)
    /\ Cardinality(atBegin) >= 2
    /\ \A l \in atBegin : Invocations(l) = 1

\* C19: a call on one EventService (on, off, emit, clear, clearAll) leaves the
\* registry of the other as it is, in both directions, and an emit invokes
\* listeners of the registry it was called on only: none that is registered on
\* the other service alone, under the same event name.
C19_InstanceIsolation ==
    /\ [][/\ evSelf' # evSelf => other' = other
          /\ other' # other => evSelf' = evSelf]_vars
    /\ [](call.op = "emit" =>
              \A i \in 1 .. Len(calls) :
                  /\ calls[i].listener \in atBegin
                  /\ calls[i].listener \in RegisteredFor(call.type))

\* An emit has returned on one service while the other has, under the same
\* name, a listener that the first has not.
C19_Witness ==
    /\ EmitReturned
    /\ Len(calls) >= 1
    /\ MapHas(other, call.type)
    /\ \E l \in Range(other[call.type]) :
           /\ l \notin RegisteredFor(call.type)
           /\ Invocations(l) = 0
    /\ \E l \in Range(other[call.type]) : Invocations(l) = 1

\* The callbacks of the handlers attached to channelName's BroadcastChannel.
CallbacksOn(chs, channelName) == {h.cb : h \in AttachedIn(chs, channelName)}

C22_ClearRemovesAll ==
    /\ [][/\ \A n \in EventTypes :
                 Clear(n) =>
                     /\ result' = "returned"
                     /\ listenerCountIn(listeners', n) = 0
                     /\ n \notin DOMAIN listeners'
                     /\ \A m \in EventTypes \ {n} :
                            /\ MapHas(listeners', m) <=> MapHas(listeners, m)
                            /\ MapHas(listeners, m) => listeners'[m] = listeners[m]
          /\ ClearAll => (result' = "returned" /\ DOMAIN listeners' = {})]_vars
    /\ [](call.op = "clearAll" => eventTypes = {})
    /\ [](call.op = "emit" =>
              /\ \A i \in 1 .. Len(calls) : calls[i].listener \in subscribed[call.type]
              /\ subscribed[call.type] = {} => (calls = <<>> /\ result = "returned"))

\* clear(n) has removed the listeners of n while another event name keeps its own.
C22_Witness ==
    /\ call.op = "clear"
    /\ call.had
    /\ listenerCount(call.type) = 0
    /\ \E m \in eventTypes : m # call.type /\ listenerCount(m) >= 2

\* close(c) called for every channel of cs, one after the other.
RECURSIVE CloseEach(_, _)
CloseEach(s, cs) ==
    IF cs = {} THEN s
    ELSE LET c == CHOOSE c \in cs : TRUE
         IN  CloseEach(close(s, c), cs \ {c})

\* C23: in every state the service can be in, closeAll() and close(c) called for
\* every active channel c leave the service with the same fields, and with no
\* active channel.
C23_CloseAllIsCloseEach ==
    /\ closeAll(Service) = CloseEach(Service, getActiveChannels)
    /\ DOMAIN CloseEach(Service, getActiveChannels).channels = {}
    /\ DOMAIN closeAll(Service).channels = {}

\* C26: off(n, l) for an l that is not registered under n (removed by an off
\* before, or by clear or clearAll) and unsubscribe(c, id) for an id that is not
\* registered on c (removed by an unsubscribe before, or by close or closeAll,
\* also when c has been opened again by new subscribers) return and leave the
\* registry, the channels, the id maps and the counter as they were; off and
\* unsubscribe never remove anything but that l under n and that id on c; and a
\* subscribe never returns an id that was returned before, so that an id keeps
\* naming the subscription it was returned for.
C26_UnsubscribeIdempotent ==
    [][/\ \A n \in EventTypes, l \in Listeners :
              Off(n, l) =>
                  /\ result' = "returned"
                  /\ l \notin RegisteredFor(n) => listeners' = listeners
                  /\ \A m \in EventTypes :
                         RegisteredFor(m)' =
                             RegisteredFor(m) \ (IF m = n THEN {l} ELSE {})
       /\ \A c \in ChannelNames, id \in ListenerIds :
              Unsubscribe(c, id) =>
                  /\ bcResult' = "returned"
                  /\ id \notin IdsOn(bcListeners, c) =>
                         /\ channels' = channels
                         /\ bcListeners' = bcListeners
                         /\ listenerIdCounter' = listenerIdCounter
                  /\ \A d \in ChannelNames :
                         /\ IdsOn(bcListeners', d) =
                                IdsOn(bcListeners, d) \ (IF d = c THEN {id} ELSE {})
                         /\ \A k \in IdsOn(bcListeners', d) :
                                /\ bcListeners'[d][k] = bcListeners[d][k]
                                /\ bcListeners'[d][k] \in AttachedIn(channels', d)
       /\ \A c \in ChannelNames, cb \in Callbacks :
              Subscribe(c, cb) => ret' \notin issued]_vars

\* unsubscribe has been called with an id that was returned and is registered
\* no more, on a channel that holds the subscription of another id.
C26_Witness ==
    /\ bcCall.op = "unsubscribe"
    /\ ~bcCall.had
    /\ bcResult = "returned"
    /\ issued = ListenerIds
    /\ RegisteredIds = IdsOn(bcListeners, bcCall.channel)
    /\ Cardinality(RegisteredIds) = 1
    /\ AttachedIn(channels, bcCall.channel) # {}

\* ------------------------------------------------------------- claims: useEventOn
\* The listeners that effects of the component made and that the registry of
\* service sv holds for eventType.
HookRegistered(sv, eventType) ==
    IF MapHas(Registries[sv], eventType)
    THEN Range(Registries[sv][eventType]) \cap HookListeners
    ELSE {}

\* The registrations of listeners that effects of the component made.
HookRegistrations ==
    {r \in Services \X EventTypes \X HookListeners : r[3] \in HookRegistered(r[1], r[2])}

\* C24: however often the component was mounted and unmounted, while it is
\* unmounted no service holds a listener of it under any event name, so
\* listenerCount(n) is the number of listeners the program has registered
\* itself (0 when it has none), and an emit made while it is unmounted invokes no
\* listener of it.
C24_NoLeak ==
    ~hook.mounted =>
        /\ HookRegistrations = {}
        /\ \A n \in EventTypes :
               /\ listenerCount(n) = Cardinality(subscribed[n])
               /\ subscribed[n] \cap HookListeners = {}
        /\ call.op = "emit" =>
               \A i \in 1 .. Len(calls) : calls[i].listener \notin HookListeners

\* After the second unmount, an emit on the component's event name has invoked
\* the listeners of the program.
C24_Witness ==
    /\ ~hook.mounted
    /\ hook.made >= 2
    /\ hook.service = "self"
    /\ EmitReturned
    /\ call.type = hook.type
    /\ Len(calls) >= 1
    /\ listenerCount(call.type) = Len(calls)

C28_ExactName ==
    /\ call.op = "emit" =>
           /\ \A l \in Listeners : l \notin RegisteredFor(call.type) => Invocations(l) = 0
           /\ \A i \in 1 .. Len(calls) : calls[i].payload.type = call.type
    /\ bcCall.op = "broadcast" =>
           /\ Len(timers) = Cardinality(AttachedIn(channels, bcCall.channel))
           /\ \A i \in 1 .. Len(timers) :
                  /\ timers[i].handler \in AttachedIn(channels, bcCall.channel)
                  /\ timers[i].handler.channel = bcCall.channel
    /\ sent # <<>> =>
           \A i \in 1 .. Len(received) :
               /\ received[i].handler.channel = sent[1].handler.channel
               /\ received[i].handler.cb \in CallbacksOn(channels, sent[1].handler.channel)

\* A message broadcast on one channel has been delivered while a callback is
\* subscribed on the other channel only, and that callback was not invoked.
C28_Witness ==
    /\ bcCall.op = "deliver"
    /\ timers = <<>>
    /\ Len(received) >= 1
    /\ Made(received) = sent
    /\ \E d \in ChannelNames \ {bcCall.channel} :
           \E cb \in CallbacksOn(channels, d) :
               /\ cb \notin CallbacksOn(channels, bcCall.channel)
               /\ \A i \in 1 .. Len(received) : received[i].handler.cb # cb

\* C29: a subscribe or broadcast on a channel that is not active (never opened,
\* or closed) opens it from scratch: the channel then has an id map, which holds
\* nothing but the id of this subscribe, and a BroadcastChannel with no handler
\* but the one of that id; and a broadcast schedules deliveries to the handlers
\* of ids that are registered on the channel only, so to none that was
\* subscribed before a close and not again.
C29_ReopenFromScratch ==
    /\ (bcCall.op \in {"subscribe", "broadcast"} /\ ~bcCall.had) =>
           /\ MapHas(bcListeners, bcCall.channel)
           /\ IdsOn(bcListeners, bcCall.channel) \subseteq {ret}
           /\ AttachedIn(channels, bcCall.channel) =
                  {bcListeners[bcCall.channel][id] :
                       id \in IdsOn(bcListeners, bcCall.channel)}
    /\ bcCall.op = "broadcast" =>
           \A i \in 1 .. Len(timers) :
               ListenerId(timers[i].handler.seq) \in IdsOn(bcListeners, bcCall.channel)

\* ------------------------------------------------------------- claims: order of delivery
\* The data of the deliveries pending for the handler with this seq, in the
\* order they are pending in.
PendingFor(k) ==
    LET mine == SelectSeq(timers, LAMBDA t : t.handler.seq = k)
    IN  [i \in 1 .. Len(mine) |-> mine[i].data]

\* The seqs of the handlers of the ids registered.
RegisteredSeqs ==
    UNION {{bcListeners[c][id].seq : id \in DOMAIN bcListeners[c]} : c \in DOMAIN bcListeners}

\* C30: for the handler of an id that stays registered on a channel, the data
\* delivered to its callback are, in this order, the data of the accepted
\* broadcast calls made on the channel, up to the ones still pending, which
\* are pending in the order of the calls: every message is delivered once, none
\* before one sent before it, and all are delivered when no timer is pending.
C30_DeliveryOrder ==
    \A k \in RegisteredSeqs :
        /\ order.owed[k] = order.got[k] \o PendingFor(k)
        /\ timers = <<>> => order.got[k] = order.owed[k]

\* Two different messages sent in a row have both been delivered to two
\* subscribers of the channel.
C30_Witness ==
    /\ bcCall.op = "deliver"
    /\ timers = <<>>
    /\ Cardinality(RegisteredSeqs) >= 2
    /\ \A k \in RegisteredSeqs :
           /\ Len(order.got[k]) >= 2
           /\ order.got[k][1] # order.got[k][2]
           /\ order.got[k] = order.owed[k]

\* ------------------------------------------------------------- claims: synchronous dispatch
\* C31: emit is synchronous. A listener is invoked only while an emit call is in
\* progress, with the envelope of that call; the call returns only when forEach
\* has no entry of the Set left to visit; once it has returned, nothing is
\* invoked until the next emit call begins. The invocations of successive emit
\* calls are therefore made in the order of the calls.
C31_Synchronous ==
    [][/\ (calls' # calls /\ calls' # <<>>) =>
              /\ pc = "dispatch"
              /\ result = "none"
              /\ call' = call
              /\ call.op = "emit"
              /\ cur = EventPayload(call.type, call.arg)
              /\ Len(calls') = Len(calls) + 1
              /\ SubSeq(calls', 1, Len(calls)) = calls
              /\ calls'[Len(calls')].payload = EventPayload(call.type, call.arg)
       /\ (pc = "dispatch" /\ pc' = "idle") =>
              /\ idx >= Len(eventListeners)
              /\ result' = "returned"
              /\ calls' = calls
       /\ (pc = "idle" /\ pc' = "dispatch") => calls' = <<>> /\ result' = "none"
       /\ (pc = "idle" /\ pc' = "idle") => calls' = <<>> /\ result' = "returned"
      ]_vars

\* A second emit call has returned, with two listeners invoked, after an emit
\* call in which a listener removed itself.
C31_Witness ==
    /\ EmitReturned
    /\ Len(calls) >= 2
    /\ selfOff # NoSelfOff
    /\ ~selfOff.during

C33_NoReplay ==
    /\ \A i \in 1 .. Len(calls) :
           /\ call.op = "emit"
           /\ calls[i].payload = EventPayload(call.type, call.arg)
           /\ calls[i].listener \in atBegin
    /\ (late # NoLate /\ call.op = "on") => calls = <<>>
    /\ (late # NoLate /\ EmitReturned /\ call.type = late.type
        /\ late.listener \in RegisteredFor(late.type)) =>
           Invocations(late.listener) = 1

\* A listener was registered after an emit call had returned, and a later emit
\* call with other data has invoked it once, with the data of the later call.
C33_Witness ==
    /\ late # NoLate
    /\ EmitReturned
    /\ call.type = late.type
    /\ call.arg # late.missed.data
    /\ Invocations(late.listener) = 1
    /\ Len(calls) >= 2
    /\ \A i \in 1 .. Len(calls) : calls[i].payload.data = call.arg

\* ------------------------------------------------------------- claims: transport handles
\* C34: in every state the service has one BroadcastChannel that is open for
\* each active channel name, the one this.channels holds, and none for any other
\* name: a BroadcastChannel is constructed only for a name without one, and one
\* that leaves this.channels has been closed. isChannelActive(c) is true for
\* exactly the names getActiveChannels() returns.
C34_HandleOwnership ==
    /\ \A c \in ChannelNames : handles[c] = IF MapHas(channels, c) THEN 1 ELSE 0
    /\ \A c \in DOMAIN channels : channels[c].name = c
    /\ DOMAIN channels \subseteq ChannelNames
    /\ \A c \in ChannelNames : isChannelActive(c) <=> c \in getActiveChannels

\* A broadcast has opened a channel after the channel of a subscription was
\* closed: its BroadcastChannel is the only one that is open.
C34_Witness ==
    /\ bcCall.op = "broadcast"
    /\ ~bcCall.had
    /\ issued # {}
    /\ getActiveChannels = {bcCall.channel}
    /\ handles[bcCall.channel] = 1

\* ------------------------------------------------------------- claims: adapters
\* The handlers the id map of channelName holds.
StoredIn(lst, channelName) ==
    IF MapHas(lst, channelName)
    THEN {lst[channelName][id] : id \in DOMAIN lst[channelName]}
    ELSE {}

\* C35: for every active channel the handlers attached to its BroadcastChannel
\* are the handlers its id map holds, each under an id that subscribe has
\* returned; and a subscribe call that has thrown has attached no handler and
\* has not advanced the counter, which counts the ids returned.
C35_AdaptersMatch ==
    /\ \A c \in DOMAIN channels :
           /\ AttachedIn(channels, c) = StoredIn(bcListeners, c)
           /\ IdsOn(bcListeners, c) \subseteq issued
    /\ (bcCall.op = "subscribe" /\ bcResult = "threw") =>
           listenerIdCounter = Cardinality(issued)

\* ------------------------------------------------------------- claims: ids and channels
\* C36: an id is registered on one channel at most, the one subscribe returned
\* it for; unsubscribe(d, id) with an id that is registered on another channel
\* c and not on d leaves the service as it is: the subscription on c, every
\* subscription on d, and the handlers attached to both BroadcastChannels.
C36_IdsScoped ==
    /\ \A c, d \in ChannelNames :
           c # d => IdsOn(bcListeners, c) \cap IdsOn(bcListeners, d) = {}
    /\ \A c, d \in ChannelNames, id \in ListenerIds :
           (c # d /\ id \in IdsOn(bcListeners, c)) =>
               /\ bcListeners[c][id].channel = c
               /\ unsubscribe(Service, d, id) = Service
    /\ (bcCall.op = "unsubscribe" /\ ~bcCall.had) =>
           \A c \in DOMAIN channels :
               AttachedIn(channels, c) = StoredIn(bcListeners, c)
                   \/ ~MapHas(bcListeners, c)

\* unsubscribe has been called on a channel with an id that is registered on
\* the other channel: every id issued is registered, none on the channel named.
C36_Witness ==
    /\ bcCall.op = "unsubscribe"
    /\ ~bcCall.had
    /\ \E c \in ChannelNames :
           /\ c # bcCall.channel
           /\ IdsOn(bcListeners, c) # {}
           /\ IdsOn(bcListeners, bcCall.channel) # {}
           /\ IdsOn(bcListeners, c) \cup IdsOn(bcListeners, bcCall.channel) = issued
           /\ issued = ListenerIds

\* ------------------------------------------------------------- claims: two components
\* Both components are mounted, with the same eventType, callback and service.
BothMounted ==
    /\ hook.mounted
    /\ twin.mounted
    /\ <<hook.type, hook.cb, hook.service>> = <<twin.type, twin.cb, twin.service>>

Invocation == pc = "dispatch" /\ Len(calls') = Len(calls) + 1

\* C38 as stated: every listener that is invoked is registered at that moment:
\* none that off, clear or clearAll has removed is invoked before it is
\* registered again, also when the removal was called by a listener during the
\* emit in progress and the listener removed had not been reached.
C38_RemovalImmediate ==
    [][Invocation => calls'[Len(calls')].listener \in subscribed[cur.type]]_vars

\* C38, amended: an emit call that begins after off, clear or clearAll has
\* returned invokes no listener that was removed and not registered again; a
\* listener that off(n, l) removed during a dispatch in which no clear(n) or
\* clearAll() was called is not invoked by that dispatch after the off has
\* returned; a clear(n) or clearAll() called by a listener during a dispatch
\* empties the registry at once and leaves the dispatch its Set: that dispatch
\* goes on to invoke the listeners that the Set held when it was called and
\* that the dispatch had not reached, and no later emit invokes them.
C38_RemovalAmended ==
    /\ [][(Invocation /\ ~loose.on) =>
              calls'[Len(calls')].listener \in subscribed[cur.type]]_vars
    /\ [][(Invocation /\ loose.on) =>
              /\ inflight \cap {"clear", "clearAll"} # {}
              /\ calls'[Len(calls')].listener \in Range(loose.set)]_vars
    /\ [](pc = "idle" => loose = NoLoose)
    /\ []((pc = "dispatch" /\ inflight \cap {"clear", "clearAll"} = {}) => ~loose.on)
    /\ []((inflight \cap {"clear", "clearAll"} # {} /\ inflight \cap {"on"} = {}) =>
              listenerCount(call.type) = 0)

\* A listener has removed one that the dispatch had not reached; the emit has
\* returned without an invocation of the one removed.
C38_Witness ==
    /\ EmitReturned
    /\ inflight = {"off"}
    /\ \E l \in atBegin :
           /\ Invocations(l) = 0
           /\ l \notin subscribed[call.type]
    /\ Len(calls) >= 2

\* ------------------------------------------------------------- claims: delivery after removal
\* The handler is on the message listeners of the open BroadcastChannel of its
\* channel name: no unsubscribe has detached it and no close or closeAll has
\* closed its channel.
Attached(handler) ==
    /\ MapHas(channels, handler.channel)
    /\ handler \in Range(channels[handler.channel].message)

\* C39: once unsubscribe(c, id) or close(c) has returned, the callback registered
\* under id is not invoked again: every delivery is to a handler that is still
\* attached to its open channel, also for a message broadcast before the removal.
C39_NoDeliveryAfterRemoval ==
    [][(timers # <<>> /\ timers' = Tail(timers)) => Attached(Head(timers).handler)]_vars

\* C27: every emit call returns: a dispatch that has begun ends, when every
\* listener returns and calls nothing but on, off and clear, also when a
\* listener removes itself and registers itself again while other listeners are
\* registered for the type.
C27_EmitTerminates == (pc = "dispatch") ~> (pc = "idle")

====
